---- MODULE Spec2Model ----
(***************************************************************************)
(* Model of path_analyze: the geofence visit segmentation engine          *)
(* (visits.py: _boundary_ms, find_visits, _append_visit).                  *)
(*                                                                         *)
(* Times are integer epoch milliseconds, parameters are seconds, as in    *)
(* the source.  The source compares  x_ms / 1000.0  with a parameter in    *)
(* seconds; the model compares  x_ms  with  parameter * MsPerSecond,       *)
(* which is the same comparison without the division.                      *)
(***************************************************************************)
EXTENDS Integers, Sequences, FiniteSets, TLC

VARIABLES
    points,              \* find_visits argument: the samples, in any order
    params,              \* find_visits argument: VisitParams
    geofence,            \* find_visits argument: GeofenceCircle
    pc,                  \* "start" | "loop" | "done" | "raised"
    pts,                 \* sorted(points)
    i,                   \* index in pts of the sample the loop handles next
    prev,                \* previous sample
    prev_inside,
    in_visit,
    visit_start_ms,
    visit_end_ms,
    last_inside_ms,
    outside_started_ms,  \* None or Some(ms)
    visit_points,
    visit_id,
    method,
    visits,              \* the list find_visits returns
    attempts,            \* log of the calls of _append_visit that returned,
                         \* in call order
    b_in,                \* _boundary_ms: the arguments of the call
    b_out,               \* _boundary_ms: None or Some(returned value)
    a_in,                \* _append_visit: the arguments of the call
    a_out,               \* _append_visit: None or Some(list after the call)
    first_call,          \* None, or Some(arguments and result of an earlier
                         \* find_visits call of the same process)
    s_visits,            \* the Visit list handed to the summaries
    s_range,             \* the query range: start and end, each None or Some(ms)
    sum_out,             \* sum_visits: None or Some(VisitsTotal)
    cli_out,             \* _cmd_sum_visits: None or Some(VisitsTotal)
    dash_out,            \* dashboard summary: None or Some(hit, total)
    imp_in,              \* iter_visits_from_csv: one row of the file and tz_name
    imp_out,             \* None or Some(outcome of reading the row)
    imp_first,           \* None or Some(outcome of reading the row before its
                         \* epoch columns were edited)
    l_csv,               \* a track file: its header and its rows
    load_out,            \* load_track_points: None or Some(outcome)
    iter_out,            \* list(iter_track_points(..)): None or Some(outcome)
    cmd_fed,             \* _cmd_find_visits: None or Some(outcome), the value
                         \* being the list it hands to find_visits
    c_snapshot,          \* JsonDiskCache: the snapshot file at _path
    c_journal,           \* the journal file: None (no file) or Some(records)
    c_backup,            \* a .broken copy of the snapshot has been written
    c_data,              \* _data of the JsonDiskCache object of the process
    c_loaded,            \* _loaded of that object
    c_unflushed,         \* history: per key, the value of the last set() that
                         \* returned since the last flush()
    c_got,               \* None or Some(key, returned value, first use of the
                         \* object) of the get() just made
    c_exc,               \* None or Some(exception) of the call just made
    c_tmp,               \* the .tmp file of flush(): None or Some(dict)
    c_pc,                \* where flush() stands: "idle" | "tmp_written" |
                         \* "replaced"
    c_ever_set,          \* history: per key, the value of the last set() that
                         \* returned, in any process
    g_max,               \* NominatimReverseGeocoder.reverse: max_new_requests
                         \* of every call, None or Some(N)
    g_cached,            \* the keys the geocoder's cache has an entry for
    g_budget,            \* "used" of the dict the caller keeps to pass as
                         \* _budget_state
    g_requests,          \* history: calls of nominatim_reverse_raw so far
    g_calls,             \* history: calls of reverse() so far
    g_out,               \* None or Some(record of the reverse() call just made)
    g_now,               \* time.time(), in seconds
    g_last_request_at,   \* NominatimReverseGeocoder._last_request_at
    e_args,              \* export-readable --geocode: geocode_max_requests,
                         \* geocode_workers, and the number of pending keys
    e_pc,                \* "start" | "sequential" | "concurrent" | "flush" | "done"
    e_budget,            \* budget["used"]
    e_completed,         \* completed
    e_it_idx,            \* it_idx
    e_inflight,          \* len(futures)
    e_ok,                \* ok of the concurrent loop
    e_failed,            \* failed of the concurrent loop
    e_now,               \* time(), in seconds
    e_next_submit_at,    \* next_submit_at
    e_submitted,         \* history: the indices of items handed to the
                         \* executor, in order
    e_last_submit_at,    \* history: None or Some(time of the last submission)
    e_requests,          \* history: calls of nominatim_reverse_raw so far, made
                         \* by reverse() or submitted to the executor
    x_file,              \* write_visits_csv: None, or Some(rows of the file
                         \* written from the list find_visits returned)
    x_back,              \* None or Some(outcome of list(iter_visits_from_csv))
    d_in,                \* dashboard: start_d, end_d, the zone, the visits
    d_out                \* None, or Some(what main computed or "error")

\* iter_visits_from_csv
importVars == << imp_in, imp_out, imp_first >>

\* The variables of the file and network side of the package.
\* csv_io.py
loadVars == << l_csv, load_out, iter_out, cmd_fed >>

\* geocode.py JsonDiskCache
cacheVars == << c_snapshot, c_journal, c_backup, c_data, c_loaded,
                c_unflushed, c_got, c_exc, c_tmp, c_pc, c_ever_set >>

\* geocode.py NominatimReverseGeocoder
geocoderVars == << g_max, g_cached, g_budget, g_requests, g_calls, g_out,
                   g_now, g_last_request_at >>

\* cli.py _cmd_export_readable
exportVars == << e_args, e_pc, e_budget, e_completed, e_it_idx, e_inflight,
                 e_requests, e_ok, e_failed, e_now, e_next_submit_at,
                 e_submitted, e_last_submit_at >>

\* visits.py write_visits_csv, then iter_visits_from_csv on that file
roundTripVars == << x_file, x_back >>

\* streamlit_app.py main: the range and its days
dayVars == << d_in, d_out >>

ioVars == << importVars, loadVars, cacheVars, geocoderVars, exportVars,
             roundTripVars, dayVars >>

\* The variables find_visits does not touch.
restVars == << b_in, b_out, a_in, a_out, first_call, s_visits, s_range,
               sum_out, cli_out, dash_out, ioVars >>

\* The arguments and locals of find_visits.
engineVars == << points, params, geofence, pc, pts, i, prev, prev_inside,
                 in_visit, visit_start_ms, visit_end_ms, last_inside_ms,
                 outside_started_ms, visit_points, visit_id, method, visits,
                 attempts >>

vars == << engineVars, restVars >>

----------------------------------------------------------------------------
(* Bounds and input sets *)

MaxLen == 4                       \* longest generated time-ordered input

MaxShuffledLen == 2               \* longest generated input in arbitrary order

MaxRerunLen == 3                  \* longest input of a repeated call

MaxVisits == 2                    \* longest visit list handed to a summary

MsPerSecond == 1000

TimeValues == {0, 1, 1000, 2001}  \* sample times (ms) of generated inputs

ParamValues == {0, 1}             \* parameter values (seconds)

RadiusM == 100

DistanceValues == {RadiusM, RadiusM + 1}   \* on the boundary, just outside

None == << >>

Some(x) == << x >>

Val(o) == o[1]

\* A TrackPoint, reduced to its time and its distance from the fence centre.
TrackPoint(t, d) == [geo_time_ms |-> t, distance_m |-> d]

Samples == {TrackPoint(t, d) : t \in TimeValues, d \in DistanceValues}

\* models.py DEFAULT_TZ
DEFAULT_TZ == "Asia/Shanghai"

\* The names the zone database of the system knows.
ZoneNames == {DEFAULT_TZ, "UTC"}

VisitParams(mg, eg, tg, md) ==
    [tz_name |-> DEFAULT_TZ,
     max_gap_seconds |-> mg, exit_grace_seconds |-> eg,
     transition_gap_seconds |-> tg, min_dwell_seconds |-> md]

\* VisitParams with another tz_name.
WithTz(p, tz) == [p EXCEPT !.tz_name = tz]

GeofenceCircle == [radius_m |-> RadiusM]

----------------------------------------------------------------------------
(* Pure functions *)

\* geo.py is_inside_circle: distance <= radius, boundary inclusive.
is_inside_circle(p, fence) == p.distance_m <= fence.radius_m

\* _boundary_ms with the threshold made exclusive.
_boundary_ms_exclusive(prev_ms, cur_ms, max_gap_s, prefer) ==
    IF cur_ms < prev_ms THEN prev_ms
    ELSE IF (cur_ms - prev_ms) < max_gap_s * MsPerSecond
         THEN prev_ms + ((cur_ms - prev_ms) \div 2)
         ELSE IF prefer = "prev" THEN prev_ms ELSE cur_ms

\* visits.py _boundary_ms
_boundary_ms(prev_ms, cur_ms, max_gap_s, prefer) ==
    IF cur_ms < prev_ms THEN prev_ms
    ELSE IF (cur_ms - prev_ms) <= max_gap_s * MsPerSecond
         THEN prev_ms + ((cur_ms - prev_ms) \div 2)
         ELSE IF prefer = "prev" THEN prev_ms ELSE cur_ms

\* SortByTime that leaves the input order alone.
SortByTime_none(s) == s

\* sorted(points, key=geo_time_ms): stable, so ties keep their input order.
RECURSIVE InsertSorted(_, _)
InsertSorted(s, p) ==
    IF s = << >> THEN << p >>
    ELSE IF s[Len(s)].geo_time_ms <= p.geo_time_ms
         THEN Append(s, p)
         ELSE Append(InsertSorted(SubSeq(s, 1, Len(s) - 1), p), s[Len(s)])

RECURSIVE SortByTime(_)
SortByTime(s) ==
    IF s = << >> THEN << >>
    ELSE InsertSorted(SortByTime(SubSeq(s, 1, Len(s) - 1)), s[Len(s)])

\* models.py Visit, without the formatted datetimes.
Visit(id, start_ms, end_ms, n, m) ==
    [visit_id |-> id, start_ms |-> start_ms, end_ms |-> end_ms,
     points |-> n, method |-> m]

\* _append_visit that puts the new visit at the front of the list.
_append_visit_prepend(vs, id, start_ms, end_ms, n, m, min_dwell_s) ==
    IF end_ms <= start_ms THEN vs
    ELSE IF (end_ms - start_ms) < min_dwell_s * MsPerSecond THEN vs
    ELSE << Visit(id, start_ms, end_ms, n, m) >> \o vs

\* visits.py _append_visit: the list after the call.
\* _append_visit that lets an empty interval through.
_append_visit_empty_ok(vs, id, start_ms, end_ms, n, m, min_dwell_s) ==
    IF end_ms < start_ms THEN vs
    ELSE IF (end_ms - start_ms) < min_dwell_s * MsPerSecond THEN vs
    ELSE Append(vs, Visit(id, start_ms, end_ms, n, m))

\* _append_visit that drops a candidate lasting exactly min_dwell_s.
_append_visit_strict_dwell(vs, id, start_ms, end_ms, n, m, min_dwell_s) ==
    IF end_ms <= start_ms THEN vs
    ELSE IF (end_ms - start_ms) <= min_dwell_s * MsPerSecond THEN vs
    ELSE Append(vs, Visit(id, start_ms, end_ms, n, m))

_append_visit(vs, id, start_ms, end_ms, n, m, min_dwell_s) ==
    IF end_ms <= start_ms THEN vs
    ELSE IF (end_ms - start_ms) < min_dwell_s * MsPerSecond THEN vs
    ELSE Append(vs, Visit(id, start_ms, end_ms, n, m))

\* timeutils.py tzinfo_from_name: ZoneInfo(tz_name) fails and the function
\* raises ValueError.
tzinfo_from_name_raises(tz_name) == tz_name \notin ZoneNames

\* timeutils.py dt_from_epoch_ms: raises what tzinfo_from_name raises.
dt_from_epoch_ms_raises(epoch_ms, tz_name) == tzinfo_from_name_raises(tz_name)

\* visits.py _append_visit, lines 223-231: the candidate passes both guards
\* and building the Visit raises; _append_visit above is the call that returns.
_append_visit_raises(start_ms, end_ms, tz_name, min_dwell_s) ==
    /\ ~(end_ms <= start_ms)
    /\ ~((end_ms - start_ms) < min_dwell_s * MsPerSecond)
    /\ (dt_from_epoch_ms_raises(start_ms, tz_name)
           \/ dt_from_epoch_ms_raises(end_ms, tz_name))

\* One entry of the call log of _append_visit.
Attempt(id, start_ms, end_ms, n, m) == Visit(id, start_ms, end_ms, n, m)

Max(a, b) == IF a >= b THEN a ELSE b

----------------------------------------------------------------------------
(* Inputs *)

SeqsUpTo(S, n) == UNION {[1..k -> S] : k \in 0..n}

DefaultParams == VisitParams(12 * 60 * 60, 5 * 60, 10 * 60, 60)

Inside(t) == TrackPoint(t, RadiusM)

Outside(t) == TrackPoint(t, RadiusM + 1)

\* The worked examples of the documentation.
MinimumExample ==
    [points |-> << Inside(0), Inside(60000), Outside(120000), Outside(720000) >>,
     params |-> VisitParams(12 * 60 * 60, 300, 600, 30)]

GapExample ==
    [points |-> << Inside(0), Inside(100000 * MsPerSecond) >>,
     params |-> VisitParams(3600, 5 * 60, 10 * 60, 60)]

JitterExample ==
    [points |-> << Inside(0), Inside(60000), Inside(120000), Outside(130000),
                   Inside(200000) >>,
     params |-> VisitParams(12 * 60 * 60, 300, 10 * 60, 60)]

\* One visit closed by each kind of event: a confirmed exit, a gap split, the
\* end of the stream.
TagsExample ==
    [points |-> << Inside(1), Outside(1001), Inside(2000), Inside(3000),
                   Inside(5000), Inside(5500) >>,
     params |-> VisitParams(1, 0, 1, 0)]

\* An outside run cut short by an inside sample, then a run that lasts the
\* grace period.
InterruptedExitExample ==
    [points |-> << Inside(0), Outside(200000), Inside(400000), Outside(500000),
                   Outside(800000) >>,
     params |-> DefaultParams]

Examples ==
    {MinimumExample, GapExample, JitterExample, TagsExample,
     InterruptedExitExample}

IsTimeOrdered(s) ==
    \A k \in 1..(Len(s) - 1) : s[k].geo_time_ms <= s[k + 1].geo_time_ms

\* Inputs already in time order (ties in either order) up to MaxLen, and
\* inputs in arbitrary order up to MaxShuffledLen.
GeneratedPoints ==
    {s \in SeqsUpTo(Samples, MaxLen) : IsTimeOrdered(s)}
        \cup SeqsUpTo(Samples, MaxShuffledLen)

GeneratedInputs ==
    {[points |-> s, params |-> VisitParams(mg, eg, tg, md)] :
        s \in GeneratedPoints,
        mg \in ParamValues, eg \in ParamValues,
        tg \in ParamValues, md \in ParamValues}

Inputs == GeneratedInputs \cup Examples

NoCall == [prev_ms |-> 0, cur_ms |-> 0, max_gap_s |-> 0, prefer |-> "prev"]

NoAppend == [visits |-> << >>, start_ms |-> 0, end_ms |-> 0, min_dwell_s |-> 0]

NoRange == [start |-> None, end |-> None]

\* The variables of the other operations while they are not in use.
IdleBoundary == b_in = NoCall /\ b_out = None

IdleAppend == a_in = NoAppend /\ a_out = None

IdleSummary ==
    /\ s_visits = << >>
    /\ s_range = NoRange
    /\ sum_out = None
    /\ cli_out = None
    /\ dash_out = None

\* A time text datetime.fromisoformat accepts: the wall-clock reading in
\* milliseconds, the microseconds below the millisecond, and the UTC offset
\* if the text gives one.
IsoText(wall_ms, sub_us, offset) ==
    [iso |-> TRUE, wall_ms |-> wall_ms, sub_us |-> sub_us, offset_ms |-> offset]

TimeText(wall_ms, offset) == IsoText(wall_ms, 0, offset)

\* A cell datetime.fromisoformat does not accept.
BadTimeText == [iso |-> FALSE, wall_ms |-> 0, sub_us |-> 0, offset_ms |-> None]

\* A row of a visits file with the tz_name it is read with.  visit_id and
\* points are None (cell blank or column missing) or Some(decimal digits),
\* method is None or Some(tag).
NoRow == [visit_id |-> None, start_time |-> BadTimeText,
          end_time |-> BadTimeText, points |-> None,
          start_epoch_ms |-> None, end_epoch_ms |-> None, method |-> None,
          tz_name |-> DEFAULT_TZ]

IdleImport == imp_in = NoRow /\ imp_out = None /\ imp_first = None

NoCsv == [fieldnames |-> {}, rows |-> << >>]

IdleLoad ==
    l_csv = NoCsv /\ load_out = None /\ iter_out = None /\ cmd_fed = None

CacheKeys == {"31.2,121.5", "31.3,121.5"}

CacheValues == {"Shanghai", "Pudong"}

\* A dict over the cache keys: per key None (no entry) or Some(value).
EmptyDict == [k \in CacheKeys |-> None]

NoFile == [kind |-> "absent", data |-> EmptyDict]

IdleCache ==
    /\ c_snapshot = NoFile
    /\ c_journal = None
    /\ c_backup = FALSE
    /\ c_data = EmptyDict
    /\ c_loaded = FALSE
    /\ c_unflushed = EmptyDict
    /\ c_got = None
    /\ c_exc = None
    /\ c_tmp = None
    /\ c_pc = "idle"
    /\ c_ever_set = EmptyDict

IdleGeocoder ==
    /\ g_max = None
    /\ g_cached = {}
    /\ g_budget = 0
    /\ g_requests = 0
    /\ g_calls = 0
    /\ g_out = None
    /\ g_now = 0
    /\ g_last_request_at = 0

NoExport == [geocode_max_requests |-> Some(0), geocode_workers |-> 1,
             geocode_min_interval |-> 0, pending_n |-> 0]

IdleExport ==
    /\ e_args = NoExport
    /\ e_pc = "start"
    /\ e_budget = 0
    /\ e_completed = 0
    /\ e_it_idx = 0
    /\ e_inflight = 0
    /\ e_ok = 0
    /\ e_failed = 0
    /\ e_now = 0
    /\ e_next_submit_at = 0
    /\ e_submitted = << >>
    /\ e_last_submit_at = None
    /\ e_requests = 0

IdleRoundTrip == x_file = None /\ x_back = None

NoDays == [start_d |-> 1, end_d |-> 1, zone |-> << >>, visits |-> << >>]

IdleDays == d_in = NoDays /\ d_out = None

IdleIo ==
    /\ IdleImport /\ IdleLoad /\ IdleCache /\ IdleGeocoder /\ IdleExport
    /\ IdleRoundTrip /\ IdleDays

----------------------------------------------------------------------------
(* find_visits *)

\* Lines 83-91: the locals before the first sample is looked at.
InitLocals ==
    /\ geofence = GeofenceCircle
    /\ pc = "start"
    /\ pts = << >>
    /\ i = 0
    /\ prev = None
    /\ prev_inside = FALSE
    /\ in_visit = FALSE
    /\ visit_start_ms = 0
    /\ visit_end_ms = 0
    /\ last_inside_ms = 0
    /\ outside_started_ms = None
    /\ visit_points = 0
    /\ visit_id = 1
    /\ method = "midpoint"
    /\ visits = << >>
    /\ attempts = << >>

Init ==
    /\ IdleIo
    /\ \E inp \in Inputs : points = inp.points /\ params = inp.params
    /\ InitLocals
    /\ first_call = None
    /\ IdleBoundary
    /\ IdleAppend
    /\ IdleSummary

\* FirstInsideMethod left at the default of line 91.
FirstInsideMethod_default == "midpoint"

\* Line 103: the tag of a visit open from the first sample on.
FirstInsideMethod == "start_at_first_inside"

\* Lines 78-103: the empty input returns at once; otherwise sort and take the
\* first sample.
Start ==
    /\ pc = "start"
    /\ IF points = << >>
       THEN /\ pc' = "done"
            /\ UNCHANGED << pts, i, prev, prev_inside, in_visit, visit_start_ms,
                            visit_end_ms, last_inside_ms, visit_points, method >>
       ELSE LET sorted == SortByTime(points)
                first == sorted[1]
                first_inside == is_inside_circle(first, geofence)
            IN /\ pc' = "loop"
               /\ pts' = sorted
               /\ i' = 2
               /\ prev' = first
               /\ prev_inside' = first_inside
               /\ IF first_inside
                  THEN /\ in_visit' = TRUE
                       /\ visit_start_ms' = first.geo_time_ms
                       /\ visit_end_ms' = first.geo_time_ms
                       /\ last_inside_ms' = first.geo_time_ms
                       /\ visit_points' = 1
                       /\ method' = FirstInsideMethod
                  ELSE UNCHANGED << in_visit, visit_start_ms, visit_end_ms,
                                    last_inside_ms, visit_points, method >>
    /\ UNCHANGED << points, params, geofence, outside_started_ms, visit_id,
                    visits, attempts, restVars >>

\* EntryTransition that snaps to the previous sample on a long gap.
EntryTransition_prefer_prev(cur) ==
    /\ visit_start_ms' = _boundary_ms(prev.geo_time_ms, cur.geo_time_ms,
                                      params.transition_gap_seconds, "prev")
    /\ visit_end_ms' = cur.geo_time_ms
    /\ last_inside_ms' = cur.geo_time_ms
    /\ visit_points' = 1
    /\ in_visit' = TRUE
    /\ outside_started_ms' = None
    /\ method' = "midpoint_entry"
    /\ UNCHANGED << visit_id, visits, attempts >>

\* Lines 112-125: entry transition, previous sample outside.
EntryTransition(cur) ==
    /\ visit_start_ms' = _boundary_ms(prev.geo_time_ms, cur.geo_time_ms,
                                      params.transition_gap_seconds, "cur")
    /\ visit_end_ms' = cur.geo_time_ms
    /\ last_inside_ms' = cur.geo_time_ms
    /\ visit_points' = 1
    /\ in_visit' = TRUE
    /\ outside_started_ms' = None
    /\ method' = "midpoint_entry"
    /\ UNCHANGED << visit_id, visits, attempts >>

\* Lines 126-134: inside with no visit open and the previous sample inside.
StartAtInside(cur) ==
    /\ visit_start_ms' = cur.geo_time_ms
    /\ visit_end_ms' = cur.geo_time_ms
    /\ last_inside_ms' = cur.geo_time_ms
    /\ visit_points' = 1
    /\ in_visit' = TRUE
    /\ outside_started_ms' = None
    /\ method' = "start_at_inside"
    /\ UNCHANGED << visit_id, visits, attempts >>

\* NextVisitId that does not advance.
NextVisitId_same == visit_id

\* NextVisitId that advances only when the candidate was accepted.
NextVisitId_if_accepted == IF visits' # visits THEN visit_id + 1 ELSE visit_id

\* Lines 152 and 187: the sequence number after a closing attempt in the loop.
NextVisitId == visit_id + 1

\* IsInsideGap that already splits when the gap equals max_gap_seconds.
IsInsideGap_inclusive(cur) ==
    /\ last_inside_ms > 0
    /\ (cur.geo_time_ms - last_inside_ms) >= params.max_gap_seconds * MsPerSecond

\* Line 141: the test that splits a visit on a long gap between inside samples.
IsInsideGap(cur) ==
    /\ last_inside_ms > 0
    /\ (cur.geo_time_ms - last_inside_ms) > params.max_gap_seconds * MsPerSecond

\* SplitOnInsideGap that closes the visit and opens none at cur.
SplitOnInsideGap_no_restart(cur) ==
    /\ visits' = _append_visit(visits, visit_id, visit_start_ms, last_inside_ms,
                               visit_points, "split_on_inside_gap",
                               params.min_dwell_seconds)
    /\ attempts' = Append(attempts,
                          Attempt(visit_id, visit_start_ms, last_inside_ms,
                                  visit_points, "split_on_inside_gap"))
    /\ visit_id' = NextVisitId
    /\ in_visit' = FALSE
    /\ visit_points' = 0
    /\ UNCHANGED << visit_start_ms, visit_end_ms, last_inside_ms, method >>

\* Lines 142-158: close at the last inside sample and restart at cur.
SplitOnInsideGap(cur) ==
    /\ visits' = _append_visit(visits, visit_id, visit_start_ms, last_inside_ms,
                               visit_points, "split_on_inside_gap",
                               params.min_dwell_seconds)
    /\ attempts' = Append(attempts,
                          Attempt(visit_id, visit_start_ms, last_inside_ms,
                                  visit_points, "split_on_inside_gap"))
    /\ visit_id' = NextVisitId
    /\ visit_start_ms' = cur.geo_time_ms
    /\ visit_end_ms' = cur.geo_time_ms
    /\ last_inside_ms' = cur.geo_time_ms
    /\ visit_points' = 1
    /\ method' = "restart_after_gap"
    /\ UNCHANGED in_visit

\* ExtendVisit that does not count the sample.
ExtendVisit_uncounted(cur) ==
    /\ visit_end_ms' = cur.geo_time_ms
    /\ last_inside_ms' = cur.geo_time_ms
    /\ UNCHANGED << visit_points, visit_start_ms, in_visit, method, visit_id,
                    visits, attempts >>

\* Lines 159-162: extend the open visit.
ExtendVisit(cur) ==
    /\ visit_end_ms' = cur.geo_time_ms
    /\ last_inside_ms' = cur.geo_time_ms
    /\ visit_points' = visit_points + 1
    /\ UNCHANGED << visit_start_ms, in_visit, method, visit_id, visits, attempts >>

\* InsideWhileOpen that forgets to clear the pending exit.
InsideWhileOpen_keeps_pending(cur) ==
    /\ UNCHANGED outside_started_ms
    /\ IF IsInsideGap(cur) THEN SplitOnInsideGap(cur) ELSE ExtendVisit(cur)

\* Lines 136-162: an inside sample while a visit is open.
InsideWhileOpen(cur) ==
    /\ outside_started_ms' = None
    /\ IF IsInsideGap(cur) THEN SplitOnInsideGap(cur) ELSE ExtendVisit(cur)

\* Lines 165-166: the time the current outside run started.
OutsideStarted(cur) ==
    IF outside_started_ms = None THEN cur.geo_time_ms ELSE Val(outside_started_ms)

\* Line 167, in milliseconds.
OutsideMs(cur) ==
    IF cur.geo_time_ms >= OutsideStarted(cur)
    THEN cur.geo_time_ms - OutsideStarted(cur)
    ELSE 0

\* ExitConfirmed that measures the time outside from the last inside sample.
ExitConfirmed_from_last_inside(cur) ==
    (cur.geo_time_ms - last_inside_ms) >= params.exit_grace_seconds * MsPerSecond

\* ExitConfirmed that needs more than the grace period.
ExitConfirmed_strict(cur) ==
    OutsideMs(cur) > params.exit_grace_seconds * MsPerSecond

\* Line 168: the exit is confirmed.
ExitConfirmed(cur) == OutsideMs(cur) >= params.exit_grace_seconds * MsPerSecond

\* ExitEndMs that takes the boundary between the visit's start and the first
\* outside sample.
ExitEndMs_from_start(cur) ==
    _boundary_ms(visit_start_ms, OutsideStarted(cur),
                 params.transition_gap_seconds, "prev")

\* Lines 170-176: the end of a visit closed by a confirmed exit.
ExitEndMs(cur) ==
    Max(visit_end_ms,
        _boundary_ms(last_inside_ms, OutsideStarted(cur),
                     params.transition_gap_seconds, "prev"))

\* Lines 163-190: an outside sample while a visit is open.
OutsideWhileOpen(cur) ==
    IF ExitConfirmed(cur)
    THEN /\ visit_end_ms' = ExitEndMs(cur)
         /\ visits' = _append_visit(visits, visit_id, visit_start_ms,
                                    ExitEndMs(cur), visit_points, "exit_grace",
                                    params.min_dwell_seconds)
         /\ attempts' = Append(attempts,
                               Attempt(visit_id, visit_start_ms, ExitEndMs(cur),
                                       visit_points, "exit_grace"))
         /\ visit_id' = NextVisitId
         /\ in_visit' = FALSE
         /\ visit_points' = 0
         /\ outside_started_ms' = None
         /\ UNCHANGED << visit_start_ms, last_inside_ms, method >>
    ELSE /\ outside_started_ms' = Some(OutsideStarted(cur))
         /\ UNCHANGED << visit_start_ms, visit_end_ms, last_inside_ms,
                         visit_points, in_visit, method, visit_id, visits,
                         attempts >>

\* An exception leaves find_visits: the call returns no list and its locals
\* are gone; the model keeps them as they were when the sample was taken up.
Raise ==
    /\ pc' = "raised"
    /\ UNCHANGED << points, params, geofence, pts, i, prev, prev_inside,
                    in_visit, visit_start_ms, visit_end_ms, last_inside_ms,
                    outside_started_ms, visit_points, visit_id, method, visits,
                    attempts, restVars >>

\* Lines 142 and 177: the _append_visit call of this iteration raises.
StepRaises(cur) ==
    /\ in_visit
    /\ IF is_inside_circle(cur, geofence)
       THEN /\ IsInsideGap(cur)
            /\ _append_visit_raises(visit_start_ms, last_inside_ms,
                                    params.tz_name, params.min_dwell_seconds)
       ELSE /\ ExitConfirmed(cur)
            /\ _append_visit_raises(visit_start_ms, ExitEndMs(cur),
                                    params.tz_name, params.min_dwell_seconds)

\* Lines 105-193: one iteration of the loop over pts[1:].
Step ==
    /\ pc = "loop"
    /\ i <= Len(pts)
    /\ LET cur == pts[i]
           cur_inside == is_inside_circle(cur, geofence)
       IN IF StepRaises(cur) THEN Raise
          ELSE /\ IF ~in_visit
                  THEN IF (~prev_inside) /\ cur_inside
                       THEN EntryTransition(cur)
                       ELSE IF cur_inside THEN StartAtInside(cur)
                       ELSE UNCHANGED << visit_start_ms, visit_end_ms,
                                         last_inside_ms, outside_started_ms,
                                         visit_points, in_visit, method,
                                         visit_id, visits, attempts >>
                  ELSE IF cur_inside THEN InsideWhileOpen(cur)
                       ELSE OutsideWhileOpen(cur)
               /\ prev' = cur
               /\ prev_inside' = cur_inside
               /\ i' = i + 1
               /\ UNCHANGED << points, params, geofence, pc, pts, restVars >>

\* FinalMethod that names the closing event, as the closes inside the loop do.
FinalMethod_closing == "end_of_stream"

\* Line 204: the tag of a visit closed at the end of the stream.
FinalMethod == method

\* Line 197: the end used when the stream ends with a visit open.
FinalEndMs == IF last_inside_ms > 0 THEN last_inside_ms ELSE prev.geo_time_ms

\* Lines 195-209: close the visit still open at the end of the stream.
\* Line 198: the _append_visit call at the end of the stream raises.
FinishRaises ==
    /\ in_visit
    /\ _append_visit_raises(visit_start_ms, FinalEndMs, params.tz_name,
                            params.min_dwell_seconds)

Finish ==
    /\ pc = "loop"
    /\ i > Len(pts)
    /\ IF FinishRaises THEN Raise
       ELSE /\ pc' = "done"
            /\ IF in_visit
               THEN /\ visit_end_ms' = FinalEndMs
                    /\ visits' = _append_visit(visits, visit_id,
                                               visit_start_ms, FinalEndMs,
                                               visit_points, FinalMethod,
                                               params.min_dwell_seconds)
                    /\ attempts' = Append(attempts,
                                          Attempt(visit_id, visit_start_ms,
                                                  FinalEndMs, visit_points,
                                                  FinalMethod))
               ELSE UNCHANGED << visit_end_ms, visits, attempts >>
            /\ UNCHANGED << points, params, geofence, pts, i, prev,
                            prev_inside, in_visit, visit_start_ms,
                            last_inside_ms, outside_started_ms, visit_points,
                            visit_id, method, restVars >>

Next == Start \/ Step \/ Finish

Spec == Init /\ [][Next]_vars

----------------------------------------------------------------------------
(* find_visits with any tz_name string in params, names the zone database  *)
(* does not know included.                                                 *)

MaxTzLen == 3                     \* longest input of a call with any tz_name

TzNames == {DEFAULT_TZ, "Mars/Olympus"}

TzInputs ==
    {[points |-> s, params |-> WithTz(VisitParams(mg, eg, tg, md), tz)] :
        s \in {q \in SeqsUpTo(Samples, MaxTzLen) : IsTimeOrdered(q)},
        mg \in ParamValues, eg \in ParamValues,
        tg \in ParamValues, md \in ParamValues, tz \in TzNames}

InitTz ==
    /\ IdleIo
    /\ \E inp \in TzInputs : points = inp.points /\ params = inp.params
    /\ InitLocals
    /\ first_call = None
    /\ IdleBoundary
    /\ IdleAppend
    /\ IdleSummary

NextTz == Start \/ Step \/ Finish

SpecTz == InitTz /\ [][NextTz]_vars

----------------------------------------------------------------------------
(* Two find_visits calls in one process: the second call gets the same     *)
(* input again or, when the timestamps are pairwise distinct, any          *)
(* permutation of it.                                                      *)

DistinctTimes(s) ==
    \A j, k \in 1..Len(s) : j # k => s[j].geo_time_ms # s[k].geo_time_ms

\* The permutations of a sequence of pairwise distinct elements.
PermutationsOf(s) ==
    {q \in [1..Len(s) -> {s[k] : k \in 1..Len(s)}] :
        \A k \in 1..Len(s) : \E j \in 1..Len(s) : q[j] = s[k]}

RerunInputs ==
    {[points |-> s, params |-> VisitParams(mg, eg, tg, md)] :
        s \in SeqsUpTo(Samples, MaxRerunLen),
        mg \in ParamValues, eg \in ParamValues,
        tg \in ParamValues, md \in ParamValues}

InitRerun ==
    /\ IdleIo
    /\ \E inp \in RerunInputs : points = inp.points /\ params = inp.params
    /\ InitLocals
    /\ first_call = None
    /\ IdleBoundary
    /\ IdleAppend
    /\ IdleSummary

\* ResetLocals with a sequence counter that outlives the call.
ResetLocals_keeps_visit_id ==
    /\ pc' = "start"
    /\ pts' = << >>
    /\ i' = 0
    /\ prev' = None
    /\ prev_inside' = FALSE
    /\ in_visit' = FALSE
    /\ visit_start_ms' = 0
    /\ visit_end_ms' = 0
    /\ last_inside_ms' = 0
    /\ outside_started_ms' = None
    /\ visit_points' = 0
    /\ UNCHANGED visit_id
    /\ method' = "midpoint"
    /\ visits' = << >>
    /\ attempts' = << >>

\* Lines 83-91: every local of find_visits is created afresh by a call.
ResetLocals ==
    /\ pc' = "start"
    /\ pts' = << >>
    /\ i' = 0
    /\ prev' = None
    /\ prev_inside' = FALSE
    /\ in_visit' = FALSE
    /\ visit_start_ms' = 0
    /\ visit_end_ms' = 0
    /\ last_inside_ms' = 0
    /\ outside_started_ms' = None
    /\ visit_points' = 0
    /\ visit_id' = 1
    /\ method' = "midpoint"
    /\ visits' = << >>
    /\ attempts' = << >>

\* The caller keeps the returned list and calls find_visits once more.
Rerun ==
    /\ pc = "done"
    /\ first_call = None
    /\ first_call' = Some([points |-> points, visits |-> visits])
    /\ points' \in (IF DistinctTimes(points) THEN PermutationsOf(points)
                                             ELSE {points})
    /\ ResetLocals
    /\ UNCHANGED << params, geofence, b_in, b_out, a_in, a_out, s_visits,
                    s_range, sum_out, cli_out, dash_out, ioVars >>

NextRerun == Start \/ Step \/ Finish \/ Rerun

SpecRerun == InitRerun /\ [][NextRerun]_vars

----------------------------------------------------------------------------
(* _boundary_ms on its own: every call with arguments from bounded sets,   *)
(* out-of-order pairs included.                                            *)

BoundaryTimes == {0, 1, 2, 999, 1000, 1001, 2000, 2001}

BoundaryThresholds == {-1, 0, 1, 2}

BoundaryCalls ==
    {[prev_ms |-> p, cur_ms |-> c, max_gap_s |-> g, prefer |-> pr] :
        p \in BoundaryTimes, c \in BoundaryTimes,
        g \in BoundaryThresholds, pr \in {"prev", "cur"}}

InitBoundary ==
    /\ IdleIo
    /\ points = << >>
    /\ params = DefaultParams
    /\ InitLocals
    /\ first_call = None
    /\ IdleAppend
    /\ IdleSummary
    /\ b_in \in BoundaryCalls
    /\ b_out = None

BoundaryCall ==
    /\ b_out = None
    /\ b_out' = Some(_boundary_ms(b_in.prev_ms, b_in.cur_ms, b_in.max_gap_s,
                                  b_in.prefer))
    /\ UNCHANGED << b_in, a_in, a_out, first_call, s_visits, s_range,
                    sum_out, cli_out, dash_out, ioVars, engineVars >>

NextBoundary == BoundaryCall

SpecBoundary == InitBoundary /\ [][NextBoundary]_vars

----------------------------------------------------------------------------
(* _append_visit on its own: every call with arguments from bounded sets,  *)
(* negative min_dwell_s and end before start included.                     *)

AppendTimes == {0, 1, 999, 1000, 1001, 2000}

AppendDwells == {-1, 0, 1, 2}

AppendLists == {<< >>, << Visit(1, 0, 1000, 1, "exit_grace") >>}

AppendCalls ==
    {[visits |-> vs, start_ms |-> st, end_ms |-> en, min_dwell_s |-> md] :
        vs \in AppendLists, st \in AppendTimes, en \in AppendTimes,
        md \in AppendDwells}

\* The candidate of a call: the sequence number follows the list, the sample
\* count and the tag play no part in the decision.
AppendCandidate(c) ==
    Visit(Len(c.visits) + 1, c.start_ms, c.end_ms, 1, "exit_grace")

InitAppend ==
    /\ IdleIo
    /\ points = << >>
    /\ params = DefaultParams
    /\ InitLocals
    /\ first_call = None
    /\ IdleBoundary
    /\ IdleSummary
    /\ a_in \in AppendCalls
    /\ a_out = None

AppendCall ==
    /\ a_out = None
    /\ LET v == AppendCandidate(a_in)
       IN a_out' = Some(_append_visit(a_in.visits, v.visit_id, v.start_ms,
                                      v.end_ms, v.points, v.method,
                                      a_in.min_dwell_s))
    /\ UNCHANGED << a_in, b_in, b_out, first_call, s_visits, s_range,
                    sum_out, cli_out, dash_out, ioVars, engineVars >>

NextAppend == AppendCall

SpecAppend == InitAppend /\ [][NextAppend]_vars

----------------------------------------------------------------------------
(* The summaries: sum_visits, the sum-visits command with a range, and the *)
(* dashboard.  Totals are kept in milliseconds, the source's               *)
(* total_seconds times MsPerSecond.                                        *)

Min(a, b) == IF a <= b THEN a ELSE b

\* duration_seconds without the clamp at zero.
duration_ms_signed(v) == v.end_ms - v.start_ms

\* models.py Visit.duration_seconds
duration_ms(v) == Max(0, v.end_ms - v.start_ms)

VisitsTotal(n, total) == [visits |-> n, total_ms |-> total]

RECURSIVE SumDurations(_)
SumDurations(vs) ==
    IF vs = << >> THEN 0 ELSE duration_ms(Head(vs)) + SumDurations(Tail(vs))

\* visits.py sum_visits
sum_visits(vs) == VisitsTotal(Len(vs), SumDurations(vs))

\* clipped_seconds without the clamp at zero.
clipped_ms_signed(v_start, v_end, rng) ==
    LET lo == IF rng.start = None THEN v_start ELSE Max(v_start, Val(rng.start))
        hi == IF rng.end = None THEN v_end ELSE Min(v_end, Val(rng.end))
    IN hi - lo

\* cli.py _cmd_sum_visits.clipped_seconds
clipped_ms(v_start, v_end, rng) ==
    LET lo == IF rng.start = None THEN v_start ELSE Max(v_start, Val(rng.start))
        hi == IF rng.end = None THEN v_end ELSE Min(v_end, Val(rng.end))
    IN Max(0, hi - lo)

RECURSIVE SumClipped(_, _)
SumClipped(vs, rng) ==
    IF vs = << >> THEN 0
    ELSE clipped_ms(Head(vs).start_ms, Head(vs).end_ms, rng)
             + SumClipped(Tail(vs), rng)

\* cli.py _cmd_sum_visits: the VisitsTotal it prints.
cmd_sum_visits(vs, rng) ==
    IF rng.start # None \/ rng.end # None
    THEN VisitsTotal(Len(vs), SumClipped(vs, rng))
    ELSE sum_visits(vs)

\* streamlit_app.py _overlap_seconds
overlap_ms(v, start_ms, end_ms_exclusive) ==
    LET lo == Max(v.start_ms, start_ms)
        hi == Min(v.end_ms, end_ms_exclusive)
    IN Max(0, hi - lo)

\* streamlit_app.py main, lines 136-145: hit and total_s.
RECURSIVE dashboard_summary(_, _, _)
dashboard_summary(vs, start_ms, end_ms) ==
    IF vs = << >> THEN [hit |-> 0, total_ms |-> 0]
    ELSE LET rest == dashboard_summary(Tail(vs), start_ms, end_ms)
             ov == overlap_ms(Head(vs), start_ms, end_ms)
         IN IF ov <= 0 THEN rest
            ELSE [hit |-> rest.hit + 1, total_ms |-> rest.total_ms + ov]

SummaryTimes == {1000, 3000, 5000}

RangeStarts == {None, Some(0), Some(2000), Some(4000)}

RangeEnds == {None, Some(2000), Some(4000), Some(6000)}

\* Visits as read back from an edited visits.csv: end may precede start.
ImportedVisits ==
    {Visit(0, st, en, 0, "manual_or_imported") :
        st \in SummaryTimes, en \in SummaryTimes}

InitSummary ==
    /\ IdleIo
    /\ points = << >>
    /\ params = DefaultParams
    /\ InitLocals
    /\ first_call = None
    /\ IdleBoundary
    /\ IdleAppend
    /\ s_visits \in SeqsUpTo(ImportedVisits, MaxVisits)
    /\ \E rs \in RangeStarts, re \in RangeEnds :
          s_range = [start |-> rs, end |-> re]
    /\ sum_out = None
    /\ cli_out = None
    /\ dash_out = None

SumVisits ==
    /\ sum_out = None
    /\ sum_out' = Some(sum_visits(s_visits))
    /\ UNCHANGED << s_visits, s_range, cli_out, dash_out, b_in, b_out, a_in,
                    a_out, first_call, ioVars, engineVars >>

CmdSumVisits ==
    /\ cli_out = None
    /\ cli_out' = Some(cmd_sum_visits(s_visits, s_range))
    /\ UNCHANGED << s_visits, s_range, sum_out, dash_out, b_in, b_out, a_in,
                    a_out, first_call, ioVars, engineVars >>

\* The dashboard always has both ends of the range, start day <= end day
\* (streamlit_app.py line 122).
Dashboard ==
    /\ dash_out = None
    /\ s_range.start # None
    /\ s_range.end # None
    /\ Val(s_range.start) < Val(s_range.end)
    /\ dash_out' = Some(dashboard_summary(s_visits, Val(s_range.start),
                                          Val(s_range.end)))
    /\ UNCHANGED << s_visits, s_range, sum_out, cli_out, b_in, b_out, a_in,
                    a_out, first_call, ioVars, engineVars >>

NextSummary == SumVisits \/ CmdSumVisits \/ Dashboard

SpecSummary == InitSummary /\ [][NextSummary]_vars

----------------------------------------------------------------------------
(* Python float arithmetic (IEEE 754 binary64, round to nearest, ties to   *)
(* even) on non-negative values, as used by epoch_ms / 1000.0,             *)
(* datetime.fromtimestamp, datetime.timestamp and int(x * 1000).  A        *)
(* mantissa has 53 bits, more than an integer of the model holds, so       *)
(* whole numbers are kept as sequences of limbs, least significant first,  *)
(* without a zero top limb.  A float is m * 2^e with m a whole number.     *)

LimbBase == 1024

LimbBits == 10

MantissaBits == 53

RECURSIVE Pow2(_)
Pow2(n) == IF n = 0 THEN 1 ELSE 2 * Pow2(n - 1)

RECURSIVE BigFromInt(_)
BigFromInt(n) ==
    IF n = 0 THEN << >>
    ELSE << n % LimbBase >> \o BigFromInt(n \div LimbBase)

RECURSIVE BigToInt(_)
BigToInt(b) == IF b = << >> THEN 0 ELSE b[1] + LimbBase * BigToInt(Tail(b))

\* b * k + c
RECURSIVE BigMulAdd(_, _, _)
BigMulAdd(b, k, c) ==
    IF b = << >> THEN BigFromInt(c)
    ELSE LET t == b[1] * k + c
         IN IF Tail(b) = << >> /\ t = 0 THEN << >>
            ELSE << t % LimbBase >> \o BigMulAdd(Tail(b), k, t \div LimbBase)

\* Quotient and remainder of b by the small number d.
RECURSIVE BigDivRem(_, _)
BigDivRem(b, d) ==
    IF b = << >> THEN [q |-> << >>, r |-> 0]
    ELSE LET hi == BigDivRem(Tail(b), d)
             cur == hi.r * LimbBase + b[1]
         IN [q |-> IF hi.q = << >> /\ cur \div d = 0 THEN << >>
                   ELSE << cur \div d >> \o hi.q,
             r |-> cur % d]

\* -1, 0 or 1 as a is less than, equal to or greater than b.
RECURSIVE BigCmp(_, _)
BigCmp(a, b) ==
    IF Len(a) # Len(b) THEN (IF Len(a) < Len(b) THEN -1 ELSE 1)
    ELSE IF a = << >> THEN 0
    ELSE LET n == Len(a)
         IN IF a[n] # b[n] THEN (IF a[n] < b[n] THEN -1 ELSE 1)
            ELSE BigCmp(SubSeq(a, 1, n - 1), SubSeq(b, 1, n - 1))

RECURSIVE BigNorm(_)
BigNorm(b) ==
    IF b = << >> THEN << >>
    ELSE IF b[Len(b)] = 0 THEN BigNorm(SubSeq(b, 1, Len(b) - 1))
    ELSE b

RECURSIVE BigSubRaw(_, _, _)
BigSubRaw(a, b, borrow) ==
    IF a = << >> THEN << >>
    ELSE LET t == a[1] - (IF b = << >> THEN 0 ELSE b[1]) - borrow
         IN << (t + LimbBase) % LimbBase >>
              \o BigSubRaw(Tail(a), IF b = << >> THEN << >> ELSE Tail(b),
                           IF t < 0 THEN 1 ELSE 0)

\* a - b for a >= b
BigSub(a, b) == BigNorm(BigSubRaw(a, b, 0))

RECURSIVE BigShl(_, _)
BigShl(b, s) ==
    IF b = << >> THEN << >>
    ELSE IF s >= LimbBits THEN << 0 >> \o BigShl(b, s - LimbBits)
    ELSE BigMulAdd(b, Pow2(s), 0)

RECURSIVE BigShr(_, _)
BigShr(b, s) ==
    IF b = << >> THEN << >>
    ELSE IF s >= LimbBits THEN BigShr(Tail(b), s - LimbBits)
    ELSE BigDivRem(b, Pow2(s)).q

RECURSIVE IntBitLen(_)
IntBitLen(n) == IF n = 0 THEN 0 ELSE 1 + IntBitLen(n \div 2)

BigBitLen(b) ==
    IF b = << >> THEN 0
    ELSE LimbBits * (Len(b) - 1) + IntBitLen(b[Len(b)])

BigIsOdd(b) == b # << >> /\ b[1] % 2 = 1

\* b / 2^s rounded to the nearest whole number, ties to even.
BigRoundShift(b, s) ==
    IF s <= 0 THEN BigShl(b, -s)
    ELSE LET q == BigShr(b, s)
             r == BigSub(b, BigShl(q, s))
             c == BigCmp(r, BigShl(<< 1 >>, s - 1))
         IN IF c > 0 \/ (c = 0 /\ BigIsOdd(q)) THEN BigMulAdd(q, 1, 1) ELSE q

Float(m, e) == [m |-> m, e |-> e]

\* A rounded mantissa that reached 2^53 is 2^52 with the exponent one up.
FloatRenorm(m, e) ==
    IF BigBitLen(m) > MantissaBits THEN Float(BigShr(m, 1), e + 1)
    ELSE Float(m, e)

\* The shift k >= j that gives floor(n * 2^k / d) exactly 53 bits.
RECURSIVE FloatDivShift(_, _, _)
FloatDivShift(n, d, j) ==
    LET len == BigBitLen(BigDivRem(BigShl(n, j), d).q)
    IN IF len >= MantissaBits THEN j
       ELSE FloatDivShift(n, d, j + MantissaBits - len)

\* int / int (true division): n / d for n < d * 2^53, correctly rounded.
FloatDiv(n, d) ==
    IF n = << >> THEN Float(<< >>, 0)
    ELSE LET k == FloatDivShift(n, d, 0)
             qr == BigDivRem(BigShl(n, k), d)
             up == 2 * qr.r > d \/ (2 * qr.r = d /\ BigIsOdd(qr.q))
         IN FloatRenorm(IF up THEN BigMulAdd(qr.q, 1, 1) ELSE qr.q, -k)

\* float * c for a small whole number c, correctly rounded.
FloatMulSmall(f, c) ==
    LET p == BigMulAdd(f.m, c, 0)
        s == BigBitLen(p) - MantissaBits
    IN IF s <= 0 THEN Float(p, f.e)
       ELSE FloatRenorm(BigRoundShift(p, s), f.e + s)

\* int(f), math.floor(f): the whole part.
FloatFloor(f) == IF f.e >= 0 THEN BigShl(f.m, f.e) ELSE BigShr(f.m, -f.e)

\* modf: the fractional part, exact.
FloatFrac(f) ==
    IF f.e >= 0 THEN Float(<< >>, 0)
    ELSE Float(BigSub(f.m, BigShl(FloatFloor(f), -f.e)), f.e)

\* f rounded to the nearest whole number, ties to even.
FloatRoundHalfEven(f) == BigRoundShift(f.m, -f.e)

\* datetime.timestamp() of an aware datetime: timedelta.total_seconds() of
\* its distance from the epoch, the whole microseconds / 10**6.
timestamp(instant_ms, sub_us) ==
    FloatDiv(BigMulAdd(BigFromInt(instant_ms), MsPerSecond, sub_us), 1000000)

\* visits.py lines 321-322: int(dt.timestamp() * 1000)
timestamp_ms(instant_ms, sub_us) ==
    BigToInt(FloatFloor(FloatMulSmall(timestamp(instant_ms, sub_us),
                                      MsPerSecond)))

\* timeutils.py dt_from_epoch_ms, lines 42-43:
\* datetime.fromtimestamp(epoch_ms / 1000.0, tz=tz), which splits the float
\* with modf and rounds the fraction * 1e6 half-even to microseconds.
dt_from_epoch_ms(epoch_ms, tz_name) ==
    LET t == FloatDiv(BigFromInt(epoch_ms), MsPerSecond)
        sec == BigToInt(FloatFloor(t))
        us == BigToInt(FloatRoundHalfEven(FloatMulSmall(FloatFrac(t), 1000000)))
    IN IF us >= 1000000
       THEN [sec |-> sec + 1, us |-> us - 1000000, tz_name |-> tz_name]
       ELSE [sec |-> sec, us |-> us, tz_name |-> tz_name]

----------------------------------------------------------------------------
(* iter_visits_from_csv: reading one row of a visits file.  A time text is *)
(* its wall-clock reading and its UTC offset, if it gives one, or a text   *)
(* datetime.fromisoformat rejects.                                         *)

MsPerHour == 60 * 60 * MsPerSecond


\* The UTC offset of a zone the database knows.
utcoffset_ms(tz_name) == IF tz_name = DEFAULT_TZ THEN 8 * MsPerHour ELSE 0

\* timeutils.py parse_dt, lines 82-87: the call raises ValueError.
parse_dt_raises(text, tz_name) ==
    tzinfo_from_name_raises(tz_name) \/ ~text.iso

\* timeutils.py parse_dt, lines 89-91: a text without offset is read in
\* tz_name, one with an offset keeps its instant.  The instant in whole
\* milliseconds since the epoch; the microseconds below stay in text.sub_us.
parse_dt_instant_ms(text, tz_name) ==
    IF text.offset_ms = None
    THEN text.wall_ms - utcoffset_ms(tz_name)
    ELSE text.wall_ms - Val(text.offset_ms)

\* parse_dt followed by int(dt.timestamp() * 1000)
parse_dt_ms(text, tz_name) ==
    timestamp_ms(parse_dt_instant_ms(text, tz_name), text.sub_us)

\* row_start_ms that trusts the epoch column when it is filled in.
row_start_ms_trusting(row) ==
    IF row.start_epoch_ms # None THEN Val(row.start_epoch_ms)
    ELSE parse_dt_ms(row.start_time, row.tz_name)

\* Lines 319-321: start_ms of the Visit of a row.
row_start_ms(row) == parse_dt_ms(row.start_time, row.tz_name)

\* Lines 320-322: end_ms of the Visit of a row.
row_end_ms(row) == parse_dt_ms(row.end_time, row.tz_name)

Raised(exc) == [raised |-> TRUE, exc |-> exc]

Returned(x) == [raised |-> FALSE, value |-> x]

\* str(n) of an int n >= 0, as csv.DictWriter writes it: its decimal digits.
RECURSIVE str_of_int(_)
str_of_int(n) ==
    IF n < 10 THEN << n >> ELSE Append(str_of_int(n \div 10), n % 10)

\* int(s) of a text of decimal digits.
RECURSIVE int_of_str(_)
int_of_str(s) ==
    IF s = << >> THEN 0
    ELSE 10 * int_of_str(SubSeq(s, 1, Len(s) - 1)) + s[Len(s)]

\* Lines 324 and 329: int(row.get(name, "0") or "0")
int_cell(cell) == IF cell = None THEN 0 ELSE int_of_str(Val(cell))

\* Line 330: row.get("method", "manual_or_imported") or "manual_or_imported"
method_cell(cell) == IF cell = None THEN "manual_or_imported" ELSE Val(cell)

\* Lines 318-331: the Visit of one row, or the exception of parse_dt.
visit_from_row(row) ==
    IF parse_dt_raises(row.start_time, row.tz_name)
         \/ parse_dt_raises(row.end_time, row.tz_name)
    THEN Raised("ValueError")
    ELSE Returned(Visit(int_cell(row.visit_id), row_start_ms(row),
                        row_end_ms(row), int_cell(row.points),
                        method_cell(row.method)))

ImportTexts ==
    {TimeText(w, o) : w \in {8 * MsPerHour, 8 * MsPerHour + MsPerSecond},
                      o \in {None, Some(0), Some(8 * MsPerHour)}}
        \cup {BadTimeText}

\* The epoch cells: blank or a number, right or wrong for the time text.
EpochCells == {None, Some(0), Some(MsPerSecond)}

ImportRows ==
    {[visit_id |-> None, start_time |-> st, end_time |-> en, points |-> None,
      start_epoch_ms |-> se, end_epoch_ms |-> ee, method |-> None,
      tz_name |-> tz] :
        st \in ImportTexts, en \in ImportTexts,
        se \in EpochCells, ee \in EpochCells, tz \in TzNames \cup {"UTC"}}

IdleCore ==
    /\ points = << >>
    /\ params = DefaultParams
    /\ InitLocals
    /\ first_call = None
    /\ IdleBoundary
    /\ IdleAppend
    /\ IdleSummary

InitImport ==
    /\ IdleCore
    /\ IdleLoad
    /\ IdleCache
    /\ IdleGeocoder
    /\ IdleExport
    /\ IdleRoundTrip
    /\ IdleDays
    /\ imp_in \in ImportRows
    /\ imp_out = None
    /\ imp_first = None

\* One row is read.
ReadRow ==
    /\ imp_out = None
    /\ imp_out' = Some(visit_from_row(imp_in))
    /\ UNCHANGED << imp_in, imp_first, b_in, b_out, a_in, a_out, first_call,
                    s_visits, s_range, sum_out, cli_out, dash_out, loadVars,
                    cacheVars, geocoderVars, exportVars, roundTripVars,
                    dayVars, engineVars >>

\* The user changes the epoch cells of the row, nothing else, and the file is
\* read again.
EditEpochCells ==
    /\ imp_out # None
    /\ imp_first = None
    /\ imp_first' = imp_out
    /\ imp_out' = None
    /\ \E se \in EpochCells, ee \in EpochCells :
          /\ << se, ee >> # << imp_in.start_epoch_ms, imp_in.end_epoch_ms >>
          /\ imp_in' = [imp_in EXCEPT !.start_epoch_ms = se,
                                      !.end_epoch_ms = ee]
    /\ UNCHANGED << b_in, b_out, a_in, a_out, first_call, s_visits, s_range,
                    sum_out, cli_out, dash_out, loadVars, cacheVars,
                    geocoderVars, exportVars, roundTripVars, dayVars,
                    engineVars >>

NextImport == ReadRow \/ EditEpochCells

SpecImport == InitImport /\ [][NextImport]_vars

----------------------------------------------------------------------------
(* write_visits_csv on the list find_visits returned, then                 *)
(* iter_visits_from_csv on the file with the same tz_name.  The columns    *)
(* duration_seconds and duration_hhmmss are written and never read; the    *)
(* model leaves them out.                                                  *)

MaxRoundTripLen == 3              \* longest input of an exported run

RoundTripTimes == {1000, 1001, 2002, 3000}

RoundTripSamples ==
    {TrackPoint(t, d) : t \in RoundTripTimes, d \in DistanceValues}

RoundTripInputs ==
    {[points |-> s, params |-> WithTz(VisitParams(1, eg, tg, 0), tz)] :
        s \in {q \in SeqsUpTo(RoundTripSamples, MaxRoundTripLen) :
                  IsTimeOrdered(q)},
        eg \in ParamValues, tg \in ParamValues, tz \in ZoneNames}

\* datetime.isoformat(sep=" ") of an aware datetime: the wall-clock reading
\* in its zone, with the microseconds, and the UTC offset.
isoformat(dt) ==
    IsoText(dt.sec * MsPerSecond + dt.us \div 1000 + utcoffset_ms(dt.tz_name),
            dt.us % 1000,
            Some(utcoffset_ms(dt.tz_name)))

\* Visit.start_dt and Visit.end_dt, set at visits.py:230-231 from start_ms,
\* end_ms and params.tz_name; the Visit of the model does not store them.
start_dt(v, tz_name) == dt_from_epoch_ms(v.start_ms, tz_name)

end_dt(v, tz_name) == dt_from_epoch_ms(v.end_ms, tz_name)

\* Lines 267-281: the row written for one visit, with the tz_name the file
\* is read back with.
row_of_visit(v, tz_name) ==
    [visit_id |-> Some(str_of_int(v.visit_id)),
     start_time |-> isoformat(start_dt(v, tz_name)),
     end_time |-> isoformat(end_dt(v, tz_name)),
     points |-> Some(str_of_int(v.points)),
     start_epoch_ms |-> Some(v.start_ms),
     end_epoch_ms |-> Some(v.end_ms),
     method |-> Some(v.method),
     tz_name |-> tz_name]

\* Lines 248-281: one row per visit, in list order.
write_visits_csv(vs, tz_name) ==
    [k \in 1..Len(vs) |-> row_of_visit(vs[k], tz_name)]

\* Lines 307-331: list(iter_visits_from_csv(..)), the visits in row order, or
\* the exception of the first row that raises.
RECURSIVE iter_visits_from_csv(_)
iter_visits_from_csv(rows) ==
    IF rows = << >> THEN Returned(<< >>)
    ELSE LET head == visit_from_row(rows[1])
             rest == iter_visits_from_csv(Tail(rows))
         IN IF head.raised THEN head
            ELSE IF rest.raised THEN rest
            ELSE Returned(<< head.value >> \o rest.value)

InitRoundTrip ==
    /\ IdleIo
    /\ \E inp \in RoundTripInputs : points = inp.points /\ params = inp.params
    /\ InitLocals
    /\ first_call = None
    /\ IdleBoundary
    /\ IdleAppend
    /\ IdleSummary

\* The list find_visits returned is written to a file.
WriteVisitsCsv ==
    /\ pc = "done"
    /\ x_file = None
    /\ x_file' = Some(write_visits_csv(visits, params.tz_name))
    /\ UNCHANGED << x_back, b_in, b_out, a_in, a_out, first_call, s_visits,
                    s_range, sum_out, cli_out, dash_out, importVars, loadVars,
                    cacheVars, geocoderVars, exportVars, dayVars, engineVars
                    >>

\* The file is read back.
ReadVisitsCsv ==
    /\ x_file # None
    /\ x_back = None
    /\ x_back' = Some(iter_visits_from_csv(Val(x_file)))
    /\ UNCHANGED << x_file, b_in, b_out, a_in, a_out, first_call, s_visits,
                    s_range, sum_out, cli_out, dash_out, importVars, loadVars,
                    cacheVars, geocoderVars, exportVars, dayVars, engineVars
                    >>

NextRoundTrip == Start \/ Step \/ Finish \/ WriteVisitsCsv \/ ReadVisitsCsv

SpecRoundTrip == InitRoundTrip /\ [][NextRoundTrip]_vars

----------------------------------------------------------------------------
(* csv_io.py: reading a track file.  A file is its header (the required    *)
(* columns it has; the optional columns have defaults and are left out)    *)
(* and its rows, each a cell text per column of the header.                *)

MaxRows == 2                      \* most rows of a track file

RequiredFields == {"geoTime", "latitude", "longitude"}

\* Cell texts: one that int() and float() accept, one they reject.
Cells == {"1000", "abc"}

\* _parse_int / _parse_float: the value, for the text they accept.
ParsedNumber(cell) == IF cell = "1000" THEN 1000 ELSE 0

ParseRaises(cell) == cell # "1000"

\* Lines 58-61 and 96-99: the three required cells are read in the order
\* geoTime, latitude, longitude; the first failure ends the row.
RowOutcome(row) ==
    IF "geoTime" \notin DOMAIN row THEN Raised("KeyError")
    ELSE IF ParseRaises(row["geoTime"]) THEN Raised("ValueError")
    ELSE IF "latitude" \notin DOMAIN row THEN Raised("KeyError")
    ELSE IF ParseRaises(row["latitude"]) THEN Raised("ValueError")
    ELSE IF "longitude" \notin DOMAIN row THEN Raised("KeyError")
    ELSE IF ParseRaises(row["longitude"]) THEN Raised("ValueError")
    ELSE Returned([geo_time_ms |-> ParsedNumber(row["geoTime"]),
                   latitude |-> ParsedNumber(row["latitude"]),
                   longitude |-> ParsedNumber(row["longitude"])])

\* csv_io.py load_track_points, lines 92-107: every row that fails, for a
\* missing column or a bad cell alike, is skipped.
RECURSIVE ParsedRows(_)
ParsedRows(rows) ==
    IF rows = << >> THEN << >>
    ELSE LET o == RowOutcome(Head(rows))
         IN IF o.raised THEN ParsedRows(Tail(rows))
            ELSE << o.value >> \o ParsedRows(Tail(rows))

CsvSummary(total, parsed) ==
    [rows_total |-> total, rows_parsed |-> parsed,
     rows_skipped |-> total - parsed]

\* csv_io.py load_track_points: (points, summary).
load_track_points(csv) ==
    Returned([points |-> ParsedRows(csv.rows),
              summary |-> CsvSummary(Len(csv.rows),
                                     Len(ParsedRows(csv.rows)))])

\* csv_io.py iter_track_points, consumed to the end: the first row that lacks
\* a column raises KeyError, rows with a bad cell are skipped.
RECURSIVE iter_track_points(_)
iter_track_points(rows) ==
    IF rows = << >> THEN Returned(<< >>)
    ELSE LET o == RowOutcome(Head(rows))
             rest == iter_track_points(Tail(rows))
         IN IF o.raised /\ o.exc = "KeyError" THEN Raised("KeyError")
            ELSE IF rest.raised THEN rest
            ELSE IF o.raised THEN rest
            ELSE Returned(<< o.value >> \o rest.value)

\* cli.py _cmd_find_visits, lines 340 and 359, without a range: the list
\* given to find_visits is the one load_track_points returned.
cmd_find_visits_points(csv) ==
    LET loaded == load_track_points(csv)
    IN IF loaded.raised THEN loaded ELSE Returned(loaded.value.points)

CsvFiles ==
    UNION {{[fieldnames |-> h, rows |-> rs] :
               rs \in SeqsUpTo([h -> Cells], MaxRows)} :
              h \in SUBSET RequiredFields}

InitLoad ==
    /\ IdleCore
    /\ IdleImport
    /\ IdleCache
    /\ IdleGeocoder
    /\ IdleExport
    /\ IdleRoundTrip
    /\ IdleDays
    /\ l_csv \in CsvFiles
    /\ load_out = None
    /\ iter_out = None
    /\ cmd_fed = None

LoadTrackPoints ==
    /\ load_out = None
    /\ load_out' = Some(load_track_points(l_csv))
    /\ UNCHANGED << l_csv, iter_out, cmd_fed, b_in, b_out, a_in, a_out,
                    first_call, s_visits, s_range, sum_out, cli_out, dash_out,
                    importVars, cacheVars, geocoderVars, exportVars,
                    roundTripVars, dayVars, engineVars >>

IterTrackPoints ==
    /\ iter_out = None
    /\ iter_out' = Some(iter_track_points(l_csv.rows))
    /\ UNCHANGED << l_csv, load_out, cmd_fed, b_in, b_out, a_in, a_out,
                    first_call, s_visits, s_range, sum_out, cli_out, dash_out,
                    importVars, cacheVars, geocoderVars, exportVars,
                    roundTripVars, dayVars, engineVars >>

CmdFindVisits ==
    /\ cmd_fed = None
    /\ cmd_fed' = Some(cmd_find_visits_points(l_csv))
    /\ UNCHANGED << l_csv, load_out, iter_out, b_in, b_out, a_in, a_out,
                    first_call, s_visits, s_range, sum_out, cli_out, dash_out,
                    importVars, cacheVars, geocoderVars, exportVars,
                    roundTripVars, dayVars, engineVars >>

NextLoad == LoadTrackPoints \/ IterTrackPoints \/ CmdFindVisits

SpecLoad == InitLoad /\ [][NextLoad]_vars

----------------------------------------------------------------------------
(* geocode.py JsonDiskCache: one cache object per process, the snapshot    *)
(* file and the journal file on disk.  The process may stop at any point   *)
(* between two calls and a new process opens a cache on the same path.     *)

MaxJournalLen == 2                \* most records in the journal file

\* The snapshot file: absent, empty (or blank), a JSON object, or text that
\* json.loads rejects.
JsonFile(dict) == [kind |-> "json", data |-> dict]

EmptyFile == [kind |-> "empty", data |-> EmptyDict]

CorruptedFile == [kind |-> "corrupted", data |-> EmptyDict]

\* A line of the journal file: a record as _append_journal writes it, a
\* line json.loads rejects (a record cut short by a crash), or JSON that is
\* not an object (null, a number, a list).
JournalRecord(k, v) == [kind |-> "record", k |-> k, v |-> v]

BrokenLine == [kind |-> "broken", k |-> "", v |-> ""]

NotObjectLine == [kind |-> "not_object", k |-> "", v |-> ""]

\* Lines 138-150: the records are applied in file order; a line json.loads
\* rejects is skipped (lines 144-146); on JSON that is not an object
\* rec.get raises AttributeError (line 147), which ends the replay.
RECURSIVE ReplayRecords(_, _)
ReplayRecords(dict, records) ==
    IF records = << >> THEN dict
    ELSE IF Head(records).kind = "broken" THEN ReplayRecords(dict, Tail(records))
    ELSE IF Head(records).kind = "not_object" THEN dict
    ELSE ReplayRecords([dict EXCEPT ![Head(records).k] = Some(Head(records).v)],
                       Tail(records))

\* _replay_journal: nothing without a journal file.
_replay_journal(dict, journal) ==
    IF journal = None THEN dict ELSE ReplayRecords(dict, Val(journal))

\* Line 147: _replay_journal raises AttributeError.
_replay_journal_raises(journal) ==
    /\ journal # None
    /\ \E n \in 1..Len(Val(journal)) : Val(journal)[n].kind = "not_object"

\* Lines 74-93: _data after load() on an object not yet loaded.  The early
\* returns for a missing and for an empty snapshot come before the replay.
load(snapshot, journal) ==
    IF snapshot.kind = "absent" THEN EmptyDict
    ELSE IF snapshot.kind = "empty" THEN EmptyDict
    ELSE IF snapshot.kind = "json" THEN _replay_journal(snapshot.data, journal)
    ELSE _replay_journal(EmptyDict, journal)

\* Lines 74-92: load() raises, out of the replay it reaches.
load_raises(snapshot, journal) ==
    /\ snapshot.kind \in {"json", "corrupted"}
    /\ _replay_journal_raises(journal)

\* The load() at the start of get, set and flush raises.
LoadRaises == ~c_loaded /\ load_raises(c_snapshot, c_journal)

\* Lines 72-73: load() is a no-op on a loaded object.
DataAfterLoad == IF c_loaded THEN c_data ELSE load(c_snapshot, c_journal)

\* Lines 72-93: _loaded stays False when load() raises.
LoadedAfterLoad == c_loaded \/ ~load_raises(c_snapshot, c_journal)

\* Lines 86-88: load() copies a corrupted snapshot to the .broken file.
BackupAfterLoad ==
    c_backup \/ (~c_loaded /\ c_snapshot.kind = "corrupted")

CacheFiles ==
    {NoFile, EmptyFile, CorruptedFile, JsonFile(EmptyDict)}
        \cup {JsonFile([EmptyDict EXCEPT ![k] = Some(v)]) :
                  k \in CacheKeys, v \in CacheValues}

InitCache ==
    /\ IdleCore
    /\ IdleImport
    /\ IdleLoad
    /\ IdleGeocoder
    /\ IdleExport
    /\ IdleRoundTrip
    /\ IdleDays
    /\ c_snapshot \in CacheFiles
    /\ c_journal = None
    /\ c_backup = FALSE
    /\ c_data = EmptyDict
    /\ c_loaded = FALSE
    /\ c_unflushed = EmptyDict
    /\ c_got = None
    /\ c_exc = None
    /\ c_tmp = None
    /\ c_pc = "idle"
    /\ c_ever_set = EmptyDict

JournalLen == IF c_journal = None THEN 0 ELSE Len(Val(c_journal))

\* Lines 52-67
EnsurePersistentFiles ==
    /\ c_pc = "idle"
    /\ ~(c_snapshot.kind # "absent" /\ c_journal # None)
    /\ c_snapshot' = IF c_snapshot.kind = "absent" THEN JsonFile(EmptyDict)
                                                   ELSE c_snapshot
    /\ c_journal' = IF c_journal = None THEN Some(<< >>) ELSE c_journal
    /\ c_got' = None
    /\ c_exc' = None
    /\ UNCHANGED << c_backup, c_data, c_loaded, c_unflushed, c_tmp, c_pc,
                    c_ever_set, b_in, b_out, a_in, a_out, first_call,
                    s_visits, s_range, sum_out, cli_out, dash_out, importVars,
                    loadVars, geocoderVars, exportVars, roundTripVars,
                    dayVars, engineVars >>

\* Lines 69-93: load() called on its own.
CacheLoad ==
    /\ c_pc = "idle"
    /\ c_data' = DataAfterLoad
    /\ c_loaded' = LoadedAfterLoad
    /\ c_backup' = BackupAfterLoad
    /\ c_got' = None
    /\ c_exc' = IF LoadRaises THEN Some("AttributeError") ELSE None
    /\ UNCHANGED << c_snapshot, c_journal, c_unflushed, c_tmp, c_pc,
                    c_ever_set, b_in, b_out, a_in, a_out, first_call,
                    s_visits, s_range, sum_out, cli_out, dash_out, importVars,
                    loadVars, geocoderVars, exportVars, roundTripVars,
                    dayVars, engineVars >>

\* Lines 95-97
CacheGet ==
    \E k \in CacheKeys :
        /\ c_pc = "idle"
        /\ c_got = None
        /\ c_data' = DataAfterLoad
        /\ c_loaded' = LoadedAfterLoad
        /\ c_backup' = BackupAfterLoad
        /\ IF LoadRaises
           THEN c_got' = None /\ c_exc' = Some("AttributeError")
           ELSE /\ c_got' = Some([key |-> k, value |-> DataAfterLoad[k],
                                  first_use |-> ~c_loaded])
                /\ c_exc' = None
        /\ UNCHANGED << c_snapshot, c_journal, c_unflushed, c_tmp, c_pc,
                        c_ever_set, b_in, b_out, a_in, a_out, first_call,
                        s_visits, s_range, sum_out, cli_out, dash_out,
                        importVars, loadVars, geocoderVars, exportVars,
                        roundTripVars, dayVars, engineVars >>

\* Lines 99-102 and 123-129: set() with the journal record it appends.
CacheSet ==
    \E k \in CacheKeys, v \in CacheValues :
        /\ c_pc = "idle"
        /\ JournalLen < MaxJournalLen
        /\ c_loaded' = LoadedAfterLoad
        /\ c_backup' = BackupAfterLoad
        /\ c_got' = None
        /\ IF LoadRaises
           THEN /\ c_data' = DataAfterLoad
                /\ c_exc' = Some("AttributeError")
                /\ UNCHANGED << c_journal, c_unflushed, c_ever_set >>
           ELSE /\ c_data' = [DataAfterLoad EXCEPT ![k] = Some(v)]
                /\ c_journal' = Some(Append(IF c_journal = None THEN << >>
                                            ELSE Val(c_journal),
                                            JournalRecord(k, v)))
                /\ c_unflushed' = [c_unflushed EXCEPT ![k] = Some(v)]
                /\ c_ever_set' = [c_ever_set EXCEPT ![k] = Some(v)]
                /\ c_exc' = None
        /\ UNCHANGED << c_snapshot, c_tmp, c_pc, b_in, b_out, a_in, a_out,
                        first_call, s_visits, s_range, sum_out, cli_out,
                        dash_out, importVars, loadVars, geocoderVars,
                        exportVars, roundTripVars, dayVars, engineVars >>

\* Lines 116-118: flush() loads and writes _data to the .tmp file.
FlushWriteTmp ==
    /\ c_pc = "idle"
    /\ c_data' = DataAfterLoad
    /\ c_loaded' = LoadedAfterLoad
    /\ c_backup' = BackupAfterLoad
    /\ c_got' = None
    /\ IF LoadRaises
       THEN /\ c_exc' = Some("AttributeError")
            /\ UNCHANGED << c_tmp, c_pc, c_unflushed >>
       ELSE /\ c_tmp' = Some(DataAfterLoad)
            /\ c_pc' = "tmp_written"
            /\ c_unflushed' = EmptyDict
            /\ c_exc' = None
    /\ UNCHANGED << c_snapshot, c_journal, c_ever_set, b_in, b_out, a_in,
                    a_out, first_call, s_visits, s_range, sum_out, cli_out,
                    dash_out, importVars, loadVars, geocoderVars, exportVars,
                    roundTripVars, dayVars, engineVars >>

\* Line 119: the .tmp file replaces the snapshot.
FlushReplace ==
    /\ c_pc = "tmp_written"
    /\ c_snapshot' = JsonFile(Val(c_tmp))
    /\ c_tmp' = None
    /\ c_pc' = "replaced"
    /\ UNCHANGED << c_journal, c_backup, c_data, c_loaded, c_unflushed, c_got,
                    c_exc, c_ever_set, b_in, b_out, a_in, a_out, first_call,
                    s_visits, s_range, sum_out, cli_out, dash_out, importVars,
                    loadVars, geocoderVars, exportVars, roundTripVars,
                    dayVars, engineVars >>

\* Lines 121 and 155-162: the journal file is removed.
FlushClearJournal ==
    /\ c_pc = "replaced"
    /\ c_journal' = None
    /\ c_pc' = "idle"
    /\ UNCHANGED << c_snapshot, c_backup, c_data, c_loaded, c_unflushed,
                    c_got, c_exc, c_tmp, c_ever_set, b_in, b_out, a_in, a_out,
                    first_call, s_visits, s_range, sum_out, cli_out, dash_out,
                    importVars, loadVars, geocoderVars, exportVars,
                    roundTripVars, dayVars, engineVars >>

\* Lines 44-50: the process stops, between two calls or between two steps of
\* flush(); a new process builds a JsonDiskCache on the same path.
CacheReopen ==
    /\ c_loaded
    /\ c_data' = EmptyDict
    /\ c_loaded' = FALSE
    /\ c_got' = None
    /\ c_exc' = None
    /\ c_pc' = "idle"
    /\ UNCHANGED << c_snapshot, c_journal, c_backup, c_unflushed, c_tmp,
                    c_ever_set, b_in, b_out, a_in, a_out, first_call,
                    s_visits, s_range, sum_out, cli_out, dash_out, importVars,
                    loadVars, geocoderVars, exportVars, roundTripVars,
                    dayVars, engineVars >>

NextCache ==
    EnsurePersistentFiles \/ CacheGet \/ CacheSet \/ FlushWriteTmp
        \/ FlushReplace \/ FlushClearJournal \/ CacheReopen

SpecCache == InitCache /\ [][NextCache]_vars

\* Journal files a crashed process can leave behind.
JournalLines ==
    {JournalRecord(k, v) : k \in CacheKeys, v \in CacheValues}
        \cup {BrokenLine, NotObjectLine}

ReplayJournals ==
    {None} \cup {Some(q) : q \in UNION {[1..n -> JournalLines] :
                                           n \in 0..MaxJournalLen}}

\* A new object on a path that holds a snapshot and a journal.
InitReplay ==
    /\ IdleCore
    /\ IdleImport
    /\ IdleLoad
    /\ IdleGeocoder
    /\ IdleExport
    /\ IdleRoundTrip
    /\ IdleDays
    /\ c_snapshot \in CacheFiles
    /\ c_journal \in ReplayJournals
    /\ c_backup = FALSE
    /\ c_data = EmptyDict
    /\ c_loaded = FALSE
    /\ c_unflushed = EmptyDict
    /\ c_got = None
    /\ c_exc = None
    /\ c_tmp = None
    /\ c_pc = "idle"
    /\ c_ever_set = EmptyDict

NextReplay == CacheLoad \/ CacheGet

SpecReplay == InitReplay /\ [][NextReplay]_vars

----------------------------------------------------------------------------
(* geocode.py NominatimReverseGeocoder.reverse: a sequence of calls on one *)
(* geocoder with a cache, all with the same max_new_requests.  The caller  *)
(* passes its budget dict as _budget_state or leaves the argument out; a   *)
(* request succeeds or fails.                                              *)

MaxCalls == 3                     \* most reverse() calls of one sequence

GeoKeys == {"31.2,121.5", "31.3,121.5", "31.4,121.5"}

\* Lines 255-260: the call stops at the budget test.  Without _budget_state
\* the test reads a dict made for this call, with "used" 0.
BudgetExceeded(max_new_requests, budget_state) ==
    /\ max_new_requests # None
    /\ (IF budget_state = None THEN 0 ELSE Val(budget_state))
           >= Val(max_new_requests)

\* NominatimConfig.min_interval_seconds
MinIntervalSeconds == 1

\* The clock when the geocoder is built, later than the 0.0 of line 225.
ClockStart == MinIntervalSeconds + 1

\* Most seconds between two calls of reverse().
MaxElapsed == 2

\* Lines 273-278: the clock after _sleep_if_needed called at `now`, which
\* is also the new _last_request_at.
_sleep_if_needed(now, last_request_at) ==
    LET wait == MinIntervalSeconds - (now - last_request_at)
    IN IF wait > 0 THEN now + wait ELSE now

\* IssuesRequest that does not look into the cache.
IssuesRequest_ignores_cache(key, cached, max_new_requests, budget_state) ==
    ~BudgetExceeded(max_new_requests, budget_state)

\* Lines 249-263: the call gets as far as nominatim_reverse_raw.
IssuesRequest(key, cached, max_new_requests, budget_state) ==
    /\ key \notin cached
    /\ ~BudgetExceeded(max_new_requests, budget_state)

InitGeocoder ==
    /\ IdleCore
    /\ IdleImport
    /\ IdleLoad
    /\ IdleCache
    /\ IdleExport
    /\ IdleRoundTrip
    /\ IdleDays
    /\ g_max \in {None, Some(0), Some(1), Some(2)}
    /\ g_cached \in {{}, {"31.2,121.5"}}
    /\ g_budget = 0
    /\ g_requests = 0
    /\ g_calls = 0
    /\ g_out = None
    /\ g_now = ClockStart
    /\ g_last_request_at = 0

\* Lines 227-271: one call, made `elapsed` seconds after the last one
\* returned.
Reverse ==
    \E key \in GeoKeys, passes_state \in BOOLEAN, answered \in BOOLEAN,
       elapsed \in 0..MaxElapsed :
        LET budget_state == IF passes_state THEN Some(g_budget) ELSE None
            requested == IssuesRequest(key, g_cached, g_max, budget_state)
            now == g_now + elapsed
        IN /\ g_calls < MaxCalls
           /\ g_now' = IF requested THEN _sleep_if_needed(now, g_last_request_at)
                                    ELSE now
           /\ g_last_request_at' =
                  IF requested THEN _sleep_if_needed(now, g_last_request_at)
                               ELSE g_last_request_at
           /\ g_calls' = g_calls + 1
           /\ g_requests' = IF requested THEN g_requests + 1 ELSE g_requests
           /\ g_budget' = IF requested /\ g_max # None /\ passes_state
                          THEN g_budget + 1 ELSE g_budget
           /\ g_cached' = IF requested /\ answered
                          THEN g_cached \cup {key} ELSE g_cached
           /\ g_out' = Some([key |-> key,
                             cached |-> key \in g_cached,
                             requests_before |-> g_requests,
                             requested |-> requested,
                             result |-> IF key \in g_cached
                                           \/ (requested /\ answered)
                                        THEN Some(key) ELSE None])
           /\ UNCHANGED << g_max, b_in, b_out, a_in, a_out, first_call,
                           s_visits, s_range, sum_out, cli_out, dash_out,
                           importVars, loadVars, cacheVars, exportVars,
                           roundTripVars, dayVars, engineVars >>

NextGeocoder == Reverse

SpecGeocoder == InitGeocoder /\ [][NextGeocoder]_vars

----------------------------------------------------------------------------
(* cli.py _cmd_export_readable with --geocode: the requests of one run.    *)
(* pending holds the keys the cache has no entry for, each once, so every  *)
(* reverse() call of the run misses the cache.                             *)

MaxPending == 4                   \* most pending keys of one run

DefaultMaxRequests == 2000

WorkerValues == {0, 1, 2, 3}

\* --geocode-min-interval, in seconds
MinIntervals == {1, 2}

MaxClock == 3                     \* latest time the clock reaches unless the
                                  \* loop sleeps until next_submit_at

\* --geocode-max-requests: an int (default -1), or None if the namespace was
\* built without the parser's default.
MaxRequestsArgs == {None, Some(-1), Some(0), Some(1), Some(2)}

\* Lines 127-133: None is unlimited.
max_requests(args) ==
    IF args.geocode_max_requests = None THEN Some(DefaultMaxRequests)
    ELSE IF Val(args.geocode_max_requests) < 0 THEN None
    ELSE args.geocode_max_requests

\* target_n without the limit.
target_n_unclipped(args) == args.pending_n

\* Lines 153-156
target_n(args) ==
    IF max_requests(args) = None THEN args.pending_n
    ELSE Max(0, Min(Val(max_requests(args)), args.pending_n))

\* Lines 222-224
workers(args) == IF args.geocode_workers < 1 THEN 1 ELSE args.geocode_workers

\* Lines 243-247: len(items).
ItemsLen(args) == Min(args.pending_n, target_n(args))

InitExport ==
    /\ IdleCore
    /\ IdleImport
    /\ IdleLoad
    /\ IdleCache
    /\ IdleGeocoder
    /\ IdleRoundTrip
    /\ IdleDays
    /\ \E m \in MaxRequestsArgs, w \in WorkerValues, n \in 0..MaxPending,
          min_interval \in MinIntervals :
          e_args = [geocode_max_requests |-> m, geocode_workers |-> w,
                    geocode_min_interval |-> min_interval,
                    pending_n |-> n]
    /\ e_pc = "start"
    /\ e_budget = 0
    /\ e_completed = 0
    /\ e_it_idx = 0
    /\ e_inflight = 0
    /\ e_ok = 0
    /\ e_failed = 0
    /\ e_now = 0
    /\ e_next_submit_at = 0
    /\ e_submitted = << >>
    /\ e_last_submit_at = None
    /\ e_requests = 0

\* Lines 126-174 and 220: the mode of the run.
ExportStart ==
    /\ e_pc = "start"
    /\ e_pc' = IF target_n(e_args) > 0 /\ e_args.geocode_workers <= 1
               THEN "sequential"
               ELSE IF target_n(e_args) > 0 THEN "concurrent" ELSE "flush"
    /\ e_next_submit_at' = e_now
    /\ UNCHANGED << e_args, e_budget, e_completed, e_it_idx, e_inflight,
                    e_requests, e_ok, e_failed, e_now, e_submitted,
                    e_last_submit_at, b_in, b_out, a_in, a_out, first_call,
                    s_visits, s_range, sum_out, cli_out, dash_out, importVars,
                    loadVars, cacheVars, geocoderVars, roundTripVars, dayVars,
                    engineVars >>

\* Lines 182-183: the loop stops before the next key.
SequentialBreak ==
    /\ max_requests(e_args) # None
    /\ e_completed >= Val(max_requests(e_args))

\* Lines 181-215: one iteration of the loop over pending, or its end.  The
\* reverse() call is given the run's budget dict.
Sequential ==
    /\ e_pc = "sequential"
    /\ IF e_it_idx >= e_args.pending_n \/ SequentialBreak
       THEN /\ e_pc' = "flush"
            /\ UNCHANGED << e_budget, e_completed, e_it_idx, e_requests >>
       ELSE LET requested == IssuesRequest(e_it_idx, {}, max_requests(e_args),
                                           Some(e_budget))
            IN /\ e_requests' = IF requested THEN e_requests + 1
                                              ELSE e_requests
               /\ e_budget' = IF requested /\ max_requests(e_args) # None
                              THEN e_budget + 1 ELSE e_budget
               /\ e_completed' = e_completed + 1
               /\ e_it_idx' = e_it_idx + 1
               /\ UNCHANGED e_pc
    /\ UNCHANGED << e_args, e_inflight, e_ok, e_failed, e_now,
                    e_next_submit_at, e_submitted, e_last_submit_at, b_in,
                    b_out, a_in, a_out, first_call, s_visits, s_range,
                    sum_out, cli_out, dash_out, importVars, loadVars,
                    cacheVars, geocoderVars, roundTripVars, dayVars,
                    engineVars >>

\* Line 266: next_submit_at after a submission at `now`.
next_submit_at(at, min_interval, now) == Max(at + min_interval, now)

\* Submit that hands an item over whatever the number of futures is.
Submit_unbounded_pool ==
    /\ e_pc = "concurrent"
    /\ e_it_idx < ItemsLen(e_args)
    /\ e_now >= e_next_submit_at
    /\ e_it_idx' = e_it_idx + 1
    /\ e_inflight' = e_inflight + 1
    /\ e_requests' = e_requests + 1
    /\ e_next_submit_at' = next_submit_at(e_next_submit_at,
                                          e_args.geocode_min_interval, e_now)
    /\ e_submitted' = Append(e_submitted, e_it_idx)
    /\ e_last_submit_at' = Some(e_now)
    /\ UNCHANGED << e_args, e_pc, e_budget, e_completed, e_ok, e_failed,
                    e_now, b_in, b_out, a_in, a_out, first_call, s_visits,
                    s_range, sum_out, cli_out, dash_out, importVars, loadVars,
                    cacheVars, geocoderVars, roundTripVars, dayVars,
                    engineVars >>

\* Lines 256-266: one more item is submitted to the executor.
Submit ==
    /\ e_pc = "concurrent"
    /\ e_it_idx < ItemsLen(e_args)
    /\ e_inflight < workers(e_args)
    /\ e_now >= e_next_submit_at
    /\ e_it_idx' = e_it_idx + 1
    /\ e_inflight' = e_inflight + 1
    /\ e_requests' = e_requests + 1
    /\ e_next_submit_at' = next_submit_at(e_next_submit_at,
                                          e_args.geocode_min_interval, e_now)
    /\ e_submitted' = Append(e_submitted, e_it_idx)
    /\ e_last_submit_at' = Some(e_now)
    /\ UNCHANGED << e_args, e_pc, e_budget, e_completed, e_ok, e_failed,
                    e_now, b_in, b_out, a_in, a_out, first_call, s_visits,
                    s_range, sum_out, cli_out, dash_out, importVars, loadVars,
                    cacheVars, geocoderVars, roundTripVars, dayVars,
                    engineVars >>

\* Lines 276-311: a future is done and its result taken.
Complete ==
    /\ e_pc = "concurrent"
    /\ e_inflight > 0
    /\ e_inflight' = e_inflight - 1
    /\ e_completed' = e_completed + 1
    /\ \E raw_is_none \in BOOLEAN :
          IF raw_is_none THEN e_failed' = e_failed + 1 /\ e_ok' = e_ok
                         ELSE e_ok' = e_ok + 1 /\ e_failed' = e_failed
    /\ UNCHANGED << e_args, e_pc, e_budget, e_it_idx, e_requests, e_now,
                    e_next_submit_at, e_submitted, e_last_submit_at, b_in,
                    b_out, a_in, a_out, first_call, s_visits, s_range,
                    sum_out, cli_out, dash_out, importVars, loadVars,
                    cacheVars, geocoderVars, roundTripVars, dayVars,
                    engineVars >>

\* Lines 258, 273 and 276: time passes while the loop waits for a future or
\* sleeps until next_submit_at, and between any two of its statements.  The
\* clock is read only while items are left to submit.
Tick ==
    /\ e_pc = "concurrent"
    /\ e_it_idx < ItemsLen(e_args)
    /\ e_now < e_next_submit_at \/ e_now < MaxClock
    /\ e_now' = e_now + 1
    /\ UNCHANGED << e_args, e_pc, e_budget, e_completed, e_it_idx, e_inflight,
                    e_requests, e_ok, e_failed, e_next_submit_at, e_submitted,
                    e_last_submit_at, b_in, b_out, a_in, a_out, first_call,
                    s_visits, s_range, sum_out, cli_out, dash_out, importVars,
                    loadVars, cacheVars, geocoderVars, roundTripVars, dayVars,
                    engineVars >>

\* Lines 268-271: nothing in flight and nothing left to submit.
ConcurrentEnd ==
    /\ e_pc = "concurrent"
    /\ e_inflight = 0
    /\ e_it_idx >= ItemsLen(e_args)
    /\ e_pc' = "flush"
    /\ UNCHANGED << e_args, e_budget, e_completed, e_it_idx, e_inflight,
                    e_requests, e_ok, e_failed, e_now, e_next_submit_at,
                    e_submitted, e_last_submit_at, b_in, b_out, a_in, a_out,
                    first_call, s_visits, s_range, sum_out, cli_out, dash_out,
                    importVars, loadVars, cacheVars, geocoderVars,
                    roundTripVars, dayVars, engineVars >>

\* Lines 216-218 and 312-313: KeyboardInterrupt ends either loop; leaving the
\* executor waits for the futures in flight.
Interrupt ==
    /\ e_pc \in {"sequential", "concurrent"}
    /\ e_pc' = "flush"
    /\ e_inflight' = 0
    /\ UNCHANGED << e_args, e_budget, e_completed, e_it_idx, e_requests, e_ok,
                    e_failed, e_now, e_next_submit_at, e_submitted,
                    e_last_submit_at, b_in, b_out, a_in, a_out, first_call,
                    s_visits, s_range, sum_out, cli_out, dash_out, importVars,
                    loadVars, cacheVars, geocoderVars, roundTripVars, dayVars,
                    engineVars >>

\* Lines 320-336: the cache is flushed and the file written.
ExportFinish ==
    /\ e_pc = "flush"
    /\ e_pc' = "done"
    /\ UNCHANGED << e_args, e_budget, e_completed, e_it_idx, e_inflight,
                    e_requests, e_ok, e_failed, e_now, e_next_submit_at,
                    e_submitted, e_last_submit_at, b_in, b_out, a_in, a_out,
                    first_call, s_visits, s_range, sum_out, cli_out, dash_out,
                    importVars, loadVars, cacheVars, geocoderVars,
                    roundTripVars, dayVars, engineVars >>

NextExport ==
    ExportStart \/ Sequential \/ Submit \/ Complete \/ Tick \/ ConcurrentEnd
        \/ Interrupt \/ ExportFinish

SpecExport == InitExport /\ [][NextExport]_vars

\* A run no KeyboardInterrupt arrives in.
NextExportUninterrupted ==
    ExportStart \/ Sequential \/ Submit \/ Complete \/ Tick \/ ConcurrentEnd
        \/ ExportFinish

\* The main thread runs on, time passes, and every request handed to the
\* executor comes back (urlopen has a timeout, geocode.py:211).
SpecExportFair ==
    /\ InitExport
    /\ [][NextExportUninterrupted]_vars
    /\ WF_vars(ExportStart)
    /\ WF_vars(Submit)
    /\ WF_vars(Complete)
    /\ WF_vars(Tick)
    /\ WF_vars(ConcurrentEnd)

----------------------------------------------------------------------------
(* streamlit_app.py: the date range of the dashboard and its days.  A date *)
(* is its day number since 1970-01-01 (day 0).  A zone is, for each date,  *)
(* the UTC offset ZoneInfo gives the local midnight that starts it: zones  *)
(* with daylight saving give different dates different offsets.            *)

MaxDays == 3                      \* latest date of a range

MaxDayVisits == 2                 \* longest visit list of the dashboard

MsPerDay == 24 * MsPerHour

\* The dates a range can name, and the date after the last one.
Dates == 1..MaxDays

MidnightOffsets == {0, MsPerHour}

Zones == [1..(MaxDays + 1) -> MidnightOffsets]

\* Lines 32-34, 50-52:
\* int(datetime.combine(d, time.min).replace(tzinfo=tz).timestamp() * 1000)
midnight_ms(d, zone) == timestamp_ms(d * MsPerDay - zone[d], 0)

\* day_end_ms that takes every day to last 24 hours.
day_end_ms_fixed(d, zone) == midnight_ms(d, zone) + MsPerDay

\* Line 51-52: the end of the day d, the midnight that starts the next date.
day_end_ms(d, zone) == midnight_ms(d + 1, zone)

\* Lines 28-34
_range_to_epoch_ms(start_d, end_d, zone) ==
    [start_ms |-> midnight_ms(start_d, zone),
     end_ms |-> midnight_ms(end_d + 1, zone)]

\* Lines 43-54: one (day, start_ms, end_ms) per date from start_d to end_d.
_day_ranges(start_d, end_d, zone) ==
    [k \in 1..(end_d - start_d + 1) |->
        [day |-> start_d + k - 1,
         start_ms |-> midnight_ms(start_d + k - 1, zone),
         end_ms |-> day_end_ms(start_d + k - 1, zone)]]

\* Lines 136-149: hit, total_s and day_seconds, in milliseconds.
RECURSIVE day_totals(_, _, _, _)
day_totals(vs, start_ms, end_ms, days) ==
    IF vs = << >>
    THEN [hit |-> 0, total_ms |-> 0, day_ms |-> [k \in 1..Len(days) |-> 0]]
    ELSE LET rest == day_totals(Tail(vs), start_ms, end_ms, days)
             s == overlap_ms(Head(vs), start_ms, end_ms)
         IN IF s <= 0 THEN rest
            ELSE [hit |-> rest.hit + 1,
                  total_ms |-> rest.total_ms + s,
                  day_ms |-> [k \in 1..Len(days) |->
                                rest.day_ms[k]
                                  + overlap_ms(Head(vs), days[k].start_ms,
                                               days[k].end_ms)]]

\* Lines 122-149 of main.
dashboard_days(in) ==
    IF in.start_d > in.end_d THEN [error |-> TRUE]
    ELSE LET rng == _range_to_epoch_ms(in.start_d, in.end_d, in.zone)
             days == _day_ranges(in.start_d, in.end_d, in.zone)
             tot == day_totals(in.visits, rng.start_ms, rng.end_ms, days)
         IN [error |-> FALSE, start_ms |-> rng.start_ms, end_ms |-> rng.end_ms,
             days |-> days, hit |-> tot.hit, total_ms |-> tot.total_ms,
             day_ms |-> tot.day_ms]

DayVisitTimes == {23 * MsPerHour, 24 * MsPerHour, 49 * MsPerHour}

DayVisits ==
    {Visit(0, se[1], se[2], 0, "manual_or_imported") :
        se \in {q \in DayVisitTimes \X DayVisitTimes : q[1] < q[2]}}

InitDays ==
    /\ IdleCore
    /\ IdleImport
    /\ IdleLoad
    /\ IdleCache
    /\ IdleGeocoder
    /\ IdleExport
    /\ IdleRoundTrip
    /\ \E sd \in Dates, ed \in Dates, z \in Zones,
          vs \in SeqsUpTo(DayVisits, MaxDayVisits) :
          d_in = [start_d |-> sd, end_d |-> ed, zone |-> z, visits |-> vs]
    /\ d_out = None

\* main runs on a range with start_d <= end_d.
DashboardDays ==
    /\ d_out = None
    /\ d_in.start_d <= d_in.end_d
    /\ d_out' = Some(dashboard_days(d_in))
    /\ UNCHANGED << d_in, b_in, b_out, a_in, a_out, first_call, s_visits,
                    s_range, sum_out, cli_out, dash_out, importVars, loadVars,
                    cacheVars, geocoderVars, exportVars, roundTripVars,
                    engineVars >>

\* Lines 122-124: main stops with an error when start_d > end_d.
DashboardRejects ==
    /\ d_out = None
    /\ d_in.start_d > d_in.end_d
    /\ d_out' = Some(dashboard_days(d_in))
    /\ UNCHANGED << d_in, b_in, b_out, a_in, a_out, first_call, s_visits,
                    s_range, sum_out, cli_out, dash_out, importVars, loadVars,
                    cacheVars, geocoderVars, exportVars, roundTripVars,
                    engineVars >>

NextDays == DashboardDays \/ DashboardRejects

SpecDays == InitDays /\ [][NextDays]_vars

----------------------------------------------------------------------------
(* Vocabulary of the properties *)

AtSample == pc = "loop" /\ i <= Len(pts)

AtEndOfStream == pc = "loop" /\ i > Len(pts)

Cur == pts[i]

CurInside == is_inside_circle(Cur, geofence)

StateOutside == ~in_visit

StateInside == in_visit /\ outside_started_ms = None

StatePendingExit == in_visit /\ outside_started_ms # None

Last(s) == s[Len(s)]

\* A step that calls _append_visit exactly once.
OneAttempt == Len(attempts') = Len(attempts) + 1

NoAttempt == attempts' = attempts

InsideIndices == {k \in 1..Len(pts) : is_inside_circle(pts[k], geofence)}

Floor2(x) == CHOOSE m \in 0..x : 2 * m <= x /\ x < 2 * m + 2

----------------------------------------------------------------------------
(* C1: every Visit in the returned list has start_ms < end_ms and lasts at *)
(* least min_dwell_seconds.                                                *)
C1_VisitsValid ==
    \A k \in 1..Len(visits) :
        /\ visits[k].start_ms < visits[k].end_ms
        /\ (visits[k].end_ms - visits[k].start_ms)
               >= params.min_dwell_seconds * MsPerSecond

\* A finished run that emitted a visit and dropped a candidate.
C1_Witness ==
    /\ pc = "done"
    /\ Len(visits) >= 1
    /\ Len(attempts) > Len(visits)

(* C8: _boundary_ms returns prev when cur < prev, the floored midpoint     *)
(* when 0 <= cur - prev <= threshold (inclusive), else the preferred side. *)
C8_BoundaryResult ==
    b_out # None =>
        LET p == b_in.prev_ms
            c == b_in.cur_ms
        IN Val(b_out) =
             IF c < p THEN p
             ELSE IF 0 <= c - p /\ c - p <= b_in.max_gap_s * MsPerSecond
                  THEN p + Floor2(c - p)
                  ELSE IF b_in.prefer = "prev" THEN p ELSE c

\* A call whose gap equals the threshold exactly, so the
\* midpoint branch is taken at its inclusive edge.
C8_Witness ==
    /\ b_out # None
    /\ b_in.cur_ms - b_in.prev_ms = b_in.max_gap_s * MsPerSecond
    /\ b_in.max_gap_s > 0
    /\ Val(b_out) = b_in.prev_ms + 500

(* C2: in state INSIDE an inside sample either splits (gap > max_gap: a    *)
(* closing attempt with end = last_inside, new visit at cur.time with one  *)
(* sample) or extends the visit without a closing attempt, for every value *)
(* of last_inside, epoch 0 included.                                       *)
C2_InsideInside ==
    [][ (AtSample /\ StateInside /\ CurInside) =>
          IF (Cur.geo_time_ms - last_inside_ms)
                 > params.max_gap_seconds * MsPerSecond
          THEN /\ OneAttempt
               /\ Last(attempts').end_ms = last_inside_ms
               /\ in_visit'
               /\ visit_start_ms' = Cur.geo_time_ms
               /\ visit_points' = 1
          ELSE /\ NoAttempt
               /\ in_visit'
               /\ last_inside_ms' = Cur.geo_time_ms
               /\ visit_points' = visit_points + 1 ]_vars

(* C3: at the end of the stream with a visit open, the one closing attempt *)
(* ends at last_inside, the time of the most recent inside sample, also    *)
(* when that time is 0.                                                    *)
C3_EndOfStreamAtLastInside ==
    [][ (AtEndOfStream /\ in_visit) =>
          /\ OneAttempt
          /\ Last(attempts').end_ms = last_inside_ms
          /\ \A k \in InsideIndices : pts[k].geo_time_ms <= last_inside_ms
          /\ \E k \in InsideIndices : pts[k].geo_time_ms = last_inside_ms ]_vars

(* C4 as stated: in state INSIDE the first outside sample only records     *)
(* outside_started = cur.time, with no closing attempt, for every          *)
(* exit_grace_seconds.                                                     *)
C4_FirstOutsideAnyGrace ==
    [][ (AtSample /\ StateInside /\ ~CurInside) =>
          /\ NoAttempt
          /\ in_visit'
          /\ outside_started_ms' = Some(Cur.geo_time_ms) ]_vars

(* C4 amended: the same for every exit_grace_seconds > 0.                  *)
C4_FirstOutsidePositiveGrace ==
    [][ (AtSample /\ StateInside /\ ~CurInside
            /\ params.exit_grace_seconds > 0) =>
          /\ NoAttempt
          /\ in_visit'
          /\ outside_started_ms' = Some(Cur.geo_time_ms)
          /\ UNCHANGED << visit_start_ms, visit_end_ms, last_inside_ms,
                          visit_points, visits >> ]_vars

\* The first outside sample after an inside one has just been handled and
\* the exit is pending.
C4_Witness ==
    /\ pc = "loop"
    /\ i >= 3
    /\ params.exit_grace_seconds > 0
    /\ is_inside_circle(pts[i - 2], geofence)
    /\ ~is_inside_circle(pts[i - 1], geofence)
    /\ in_visit
    /\ outside_started_ms = Some(pts[i - 1].geo_time_ms)

(* C5 as stated: an inside sample during a pending exit cancels it and     *)
(* extends the visit without a closing attempt, whatever the time elapsed  *)
(* since last_inside.                                                      *)
C5_CancelAlwaysExtends ==
    [][ (AtSample /\ StatePendingExit /\ CurInside) =>
          /\ outside_started_ms' = None
          /\ in_visit'
          /\ NoAttempt
          /\ last_inside_ms' = Cur.geo_time_ms
          /\ visit_points' = visit_points + 1 ]_vars

(* C5 amended: the pending exit is always cancelled; the visit is extended *)
(* without a closing attempt when the time since last_inside is at most    *)
(* max_gap, and split (closing attempt at last_inside, new visit at        *)
(* cur.time with one sample) when it is larger and last_inside > 0.        *)
C5_CancelExtendsWithinGap ==
    [][ (AtSample /\ StatePendingExit /\ CurInside) =>
          /\ outside_started_ms' = None
          /\ in_visit'
          /\ last_inside_ms' = Cur.geo_time_ms
          /\ (Cur.geo_time_ms - last_inside_ms
                 <= params.max_gap_seconds * MsPerSecond) =>
                /\ NoAttempt
                /\ visit_points' = visit_points + 1
                /\ visit_start_ms' = visit_start_ms
          /\ (Cur.geo_time_ms - last_inside_ms
                 > params.max_gap_seconds * MsPerSecond
              /\ last_inside_ms > 0) =>
                /\ OneAttempt
                /\ Last(attempts').end_ms = last_inside_ms
                /\ visit_points' = 1
                /\ visit_start_ms' = Cur.geo_time_ms ]_vars

\* A pending exit has just been cancelled by an inside sample that extended
\* the visit.
C5_Witness ==
    /\ pc = "loop"
    /\ i >= 4
    /\ ~is_inside_circle(pts[i - 2], geofence)
    /\ is_inside_circle(pts[i - 1], geofence)
    /\ in_visit
    /\ outside_started_ms = None
    /\ visit_points >= 2
    /\ last_inside_ms = pts[i - 1].geo_time_ms
    /\ pts[i - 1].geo_time_ms > pts[i - 2].geo_time_ms

(* C6: an outside sample during a pending exit closes the visit when       *)
(* cur.time - outside_started >= exit_grace, with end = max(visit end,     *)
(* boundary(last_inside, outside_started, transition_gap, prefer           *)
(* last_inside)), and goes to OUTSIDE; otherwise the exit stays pending.   *)
(* The minimum example yields exactly one Visit, 0..90000.                 *)
C6_PendingOutside ==
    /\ [][ (AtSample /\ StatePendingExit /\ ~CurInside) =>
             LET started == Val(outside_started_ms)
                 snap == IF (started - last_inside_ms)
                               <= params.transition_gap_seconds * MsPerSecond
                         THEN last_inside_ms + Floor2(started - last_inside_ms)
                         ELSE last_inside_ms
             IN IF Cur.geo_time_ms - started
                      >= params.exit_grace_seconds * MsPerSecond
                THEN /\ OneAttempt
                     /\ Last(attempts').start_ms = visit_start_ms
                     /\ Last(attempts').end_ms = Max(visit_end_ms, snap)
                     /\ ~in_visit'
                     /\ outside_started_ms' = None
                ELSE /\ NoAttempt
                     /\ in_visit'
                     /\ outside_started_ms' = outside_started_ms ]_vars
    /\ [](( /\ pc = "done"
            /\ points = MinimumExample.points
            /\ params = MinimumExample.params) =>
              /\ Len(visits) = 1
              /\ visits[1].start_ms = 0
              /\ visits[1].end_ms = 90000)

\* A pending exit has just been confirmed after a positive grace period, and
\* the exit boundary lies after the last inside sample.
C6_Witness ==
    /\ pc = "loop"
    /\ i >= 4
    /\ ~in_visit
    /\ ~is_inside_circle(pts[i - 1], geofence)
    /\ ~is_inside_circle(pts[i - 2], geofence)
    /\ is_inside_circle(pts[i - 3], geofence)
    /\ pts[i - 1].geo_time_ms - pts[i - 2].geo_time_ms
           >= params.exit_grace_seconds * MsPerSecond
    /\ params.exit_grace_seconds > 0
    /\ attempts # << >>
    /\ Last(attempts).method = "exit_grace"
    /\ Last(attempts).end_ms > last_inside_ms

(* C7: in state OUTSIDE with the previous sample outside, an inside sample *)
(* opens a visit at the midpoint of prev and cur when their gap is at most *)
(* transition_gap, else at cur.time, with last_inside = cur.time and one   *)
(* sample.                                                                 *)
C7_EntryBoundary ==
    [][ (AtSample /\ StateOutside /\ ~prev_inside /\ CurInside) =>
          /\ in_visit'
          /\ visit_start_ms' =
                IF Cur.geo_time_ms - prev.geo_time_ms
                       <= params.transition_gap_seconds * MsPerSecond
                THEN prev.geo_time_ms
                         + Floor2(Cur.geo_time_ms - prev.geo_time_ms)
                ELSE Cur.geo_time_ms
          /\ last_inside_ms' = Cur.geo_time_ms
          /\ visit_points' = 1
          /\ NoAttempt ]_vars

\* A visit has just been opened by an entry whose gap was longer than
\* transition_gap, so it starts at the inside sample.
C7_Witness ==
    /\ pc = "loop"
    /\ i >= 3
    /\ ~is_inside_circle(pts[i - 2], geofence)
    /\ is_inside_circle(pts[i - 1], geofence)
    /\ in_visit
    /\ visit_points = 1
    /\ method = "midpoint_entry"
    /\ pts[i - 1].geo_time_ms - pts[i - 2].geo_time_ms
           > params.transition_gap_seconds * MsPerSecond
    /\ visit_start_ms = pts[i - 1].geo_time_ms

(* C9: two inside samples at 0 s and 100000 s with max_gap = 3600 s give   *)
(* two visits, the first ending at 0 s, the second starting at 100000 s.   *)
(* Stated for the returned visits or, failing that, for the closing        *)
(* candidates.                                                             *)
C9_GapExampleSplits ==
    ( /\ pc = "done"
      /\ points = GapExample.points
      /\ params = GapExample.params ) =>
        \/ /\ Len(visits) = 2
           /\ visits[1].end_ms = 0
           /\ visits[2].start_ms = 100000 * MsPerSecond
        \/ /\ Len(attempts) = 2
           /\ attempts[1].end_ms = 0
           /\ attempts[2].start_ms = 100000 * MsPerSecond

(* C10: jitter tolerance.  First sample inside, consecutive inside samples *)
(* at most max_gap apart, every run of outside samples shorter than        *)
(* exit_grace: the run makes exactly one closing candidate, starting at    *)
(* the first sample and counting every inside sample.  The jitter example  *)
(* yields exactly one visit, 0..200 s.                                     *)
OutsideRun(a, b) ==
    \A k \in a..b : ~is_inside_circle(pts[k], geofence)

NextInside(a, b) ==
    /\ a \in InsideIndices
    /\ b \in InsideIndices
    /\ a < b
    /\ \A k \in (a + 1)..(b - 1) : k \notin InsideIndices

JitterOnly ==
    /\ pts # << >>
    /\ is_inside_circle(pts[1], geofence)
    /\ \A a, b \in 1..Len(pts) :
          NextInside(a, b) =>
              pts[b].geo_time_ms - pts[a].geo_time_ms
                  <= params.max_gap_seconds * MsPerSecond
    /\ \A a, b \in 1..Len(pts) :
          (a <= b /\ OutsideRun(a, b)) =>
              pts[b].geo_time_ms - pts[a].geo_time_ms
                  < params.exit_grace_seconds * MsPerSecond

C10_JitterTolerance ==
    /\ (pc = "done" /\ JitterOnly) =>
          /\ Len(attempts) = 1
          /\ attempts[1].start_ms = pts[1].geo_time_ms
          /\ attempts[1].points = Cardinality(InsideIndices)
    /\ ( /\ pc = "done"
         /\ points = JitterExample.points
         /\ params = JitterExample.params ) =>
          /\ Len(visits) = 1
          /\ visits[1].start_ms = 0
          /\ visits[1].end_ms = 200 * MsPerSecond

\* A finished jitter-only run with an outside sample between inside samples
\* at distinct times, and more inside samples after it.
C10_Witness ==
    /\ pc = "done"
    /\ JitterOnly
    /\ Len(pts) >= 4
    /\ \E a \in 2..(Len(pts) - 1) :
          /\ OutsideRun(a, a)
          /\ pts[a - 1].geo_time_ms < pts[a].geo_time_ms
          /\ pts[a].geo_time_ms < pts[a + 1].geo_time_ms
    /\ Len(pts) \in InsideIndices
    /\ Cardinality(InsideIndices) = 3
    /\ Len(visits) = 1

(* C11: the visit_id values of the returned visits are strictly increasing *)
(* in list order.                                                          *)
C11_IdsIncrease ==
    \A k \in 1..(Len(visits) - 1) : visits[k].visit_id < visits[k + 1].visit_id

\* A finished run that returned two visits.
C11_Witness ==
    /\ pc = "done"
    /\ Len(visits) >= 2

(* C12: the k-th closing attempt of a run is numbered k, accepted or not,  *)
(* the end-of-stream close included; so an emitted visit's visit_id is 1   *)
(* plus the number of closing attempts before it.                          *)
C12_AttemptNumbers ==
    /\ \A k \in 1..Len(attempts) : attempts[k].visit_id = k
    /\ \A k \in 1..Len(visits) :
          /\ visits[k].visit_id \in 1..Len(attempts)
          /\ attempts[visits[k].visit_id] = visits[k]
    /\ pc = "loop" => visit_id = Len(attempts) + 1

\* A finished run whose first candidate was dropped and whose second one,
\* the end-of-stream close, was returned with number 2.
C12_Witness ==
    /\ pc = "done"
    /\ in_visit
    /\ Len(attempts) = 2
    /\ Len(visits) = 1
    /\ visits[1].visit_id = 2

(* C13 as stated: when the earliest sample is inside, the visit containing *)
(* it (the first closing candidate) is tagged start_at_first_inside if it  *)
(* is emitted, whichever event closes it.                                  *)
C13_FirstVisitTagAlways ==
    (pts # << >> /\ is_inside_circle(pts[1], geofence)) =>
        \A k \in 1..Len(visits) :
            visits[k].visit_id = 1 =>
                visits[k].method = "start_at_first_inside"

(* C13 amended: that visit is tagged start_at_first_inside when it is      *)
(* closed at the end of the stream; closed by a confirmed exit it is       *)
(* tagged exit_grace, closed by a gap split split_on_inside_gap.           *)
C13_FirstVisitTagByClose ==
    [][ ( /\ pts # << >>
          /\ is_inside_circle(pts[1], geofence)
          /\ attempts = << >>
          /\ OneAttempt ) =>
            /\ Last(attempts').visit_id = 1
            /\ Last(attempts').start_ms = pts[1].geo_time_ms
            /\ Last(attempts').method =
                  IF AtEndOfStream THEN "start_at_first_inside"
                  ELSE IF CurInside THEN "split_on_inside_gap"
                  ELSE "exit_grace"
            /\ visits' # visits => visits' = << Last(attempts') >> ]_vars

\* The visit open from the first sample on was closed at the end of the
\* stream and returned.
C13_Witness ==
    /\ pc = "done"
    /\ pts # << >>
    /\ is_inside_circle(pts[1], geofence)
    /\ Len(attempts) = 1
    /\ Len(visits) = 1
    /\ visits[1].method = "start_at_first_inside"
    /\ visits[1].points >= 2

(* C15: find_visits returns the empty list for the empty input and for     *)
(* every input of one sample, inside or outside, whatever the parameters.  *)
C15_FewSamplesNoVisit ==
    (pc = "done" /\ Len(points) <= 1) => visits = << >>

\* A finished run on one inside sample with min_dwell = 0: the candidate
\* was made and dropped.
C15_Witness ==
    /\ pc = "done"
    /\ Len(points) = 1
    /\ is_inside_circle(points[1], geofence)
    /\ params.min_dwell_seconds = 0
    /\ Len(attempts) = 1
    /\ visits = << >>

(* C14: a closing candidate is emitted if and only if end > start and      *)
(* end - start is at least min_dwell; a candidate lasting exactly          *)
(* min_dwell is accepted, one with end = start is rejected even when       *)
(* min_dwell <= 0.                                                         *)
C14_EmittedIff ==
    a_out # None =>
        LET accepted == /\ a_in.end_ms > a_in.start_ms
                        /\ (a_in.end_ms - a_in.start_ms)
                               >= a_in.min_dwell_s * MsPerSecond
        IN /\ accepted =>
                Val(a_out) = Append(a_in.visits, AppendCandidate(a_in))
           /\ ~accepted => Val(a_out) = a_in.visits
           /\ ( /\ a_in.end_ms > a_in.start_ms
                /\ a_in.end_ms - a_in.start_ms = a_in.min_dwell_s * MsPerSecond )
                  => Len(Val(a_out)) = Len(a_in.visits) + 1
           /\ (a_in.end_ms = a_in.start_ms /\ a_in.min_dwell_s <= 0)
                  => Val(a_out) = a_in.visits

\* A call whose candidate lasts exactly min_dwell_s and was appended.
C14_Witness ==
    /\ a_out # None
    /\ a_in.min_dwell_s > 0
    /\ a_in.end_ms - a_in.start_ms = a_in.min_dwell_s * MsPerSecond
    /\ Len(Val(a_out)) = Len(a_in.visits) + 1

(* C16: for samples with pairwise distinct timestamps, every permutation   *)
(* of the input gives the same visit list as the time-sorted sequence.     *)
C16_OrderInsensitive ==
    ( /\ first_call # None
      /\ pc = "done"
      /\ DistinctTimes(points) ) =>
        /\ pts = SortByTime(Val(first_call).points)
        /\ IsTimeOrdered(pts)
        /\ visits = Val(first_call).visits

\* Two finished calls on different orders of three samples, the first one
\* not time-ordered, that returned a visit.
C16_Witness ==
    /\ first_call # None
    /\ pc = "done"
    /\ DistinctTimes(points)
    /\ Len(points) = 3
    /\ points # Val(first_call).points
    /\ ~IsTimeOrdered(Val(first_call).points)
    /\ Len(visits) >= 1

----------------------------------------------------------------------------
(* The summaries as the documentation states them *)

\* The overlap of a visit with [rangeStart, rangeEnd), a missing end of the
\* range standing for minus or plus infinity (here: beyond every time used).
StatedOverlap(v, rng) ==
    LET lo == IF rng.start = None THEN -1000000 ELSE Val(rng.start)
        hi == IF rng.end = None THEN 1000000 ELSE Val(rng.end)
        d == Min(v.end_ms, hi) - Max(v.start_ms, lo)
    IN IF d > 0 THEN d ELSE 0

RECURSIVE SumOverIndices(_, _)
SumOverIndices(f, S) ==
    IF S = {} THEN 0
    ELSE LET k == CHOOSE x \in S : TRUE
         IN f[k] + SumOverIndices(f, S \ {k})

StatedTotal(vs, rng) ==
    SumOverIndices([k \in 1..Len(vs) |-> StatedOverlap(vs[k], rng)],
                   1..Len(vs))

StatedCount(vs, rng) ==
    Cardinality({k \in 1..Len(vs) : StatedOverlap(vs[k], rng) > 0})

RangeGiven == s_range.start # None \/ s_range.end # None

(* C18: a range-clipped summary counts only the visits whose overlap with  *)
(* the range is positive, in the sum-visits command with a range and in    *)
(* the dashboard alike.                                                    *)
C18_CountsOnlyOverlapping ==
    /\ (cli_out # None /\ RangeGiven) =>
          Val(cli_out).visits = StatedCount(s_visits, s_range)
    /\ dash_out # None =>
          Val(dash_out).hit = StatedCount(s_visits, s_range)

(* C19: the range-clipped total is the sum over the visits of              *)
(* max(0, min(end, rangeEnd) - max(start, rangeStart)), no visit counting  *)
(* negatively; a visit [1000, 5000] with range [2000, 4000) gives 2000 ms. *)
C19_ClippedTotal ==
    /\ cli_out # None =>
          /\ Val(cli_out).total_ms = StatedTotal(s_visits, s_range)
          /\ Val(cli_out).total_ms >= 0
    /\ dash_out # None =>
          /\ Val(dash_out).total_ms = StatedTotal(s_visits, s_range)
          /\ Val(dash_out).total_ms >= 0
    /\ ( /\ Len(s_visits) = 1
         /\ s_visits[1].start_ms = 1000
         /\ s_visits[1].end_ms = 5000
         /\ s_range = [start |-> Some(2000), end |-> Some(4000)] ) =>
          /\ cli_out # None => Val(cli_out).total_ms = 2000
          /\ dash_out # None => Val(dash_out).total_ms = 2000

\* Both clipped summaries are done for a list with a visit cut at both ends
\* and a visit whose end precedes its start.
C19_Witness ==
    /\ cli_out # None
    /\ dash_out # None
    /\ Len(s_visits) = 2
    /\ \E k \in 1..2 : s_visits[k].start_ms = 1000 /\ s_visits[k].end_ms = 5000
    /\ \E k \in 1..2 : s_visits[k].end_ms < s_visits[k].start_ms
    /\ s_range = [start |-> Some(2000), end |-> Some(4000)]
    /\ Val(cli_out).total_ms = 2000

(* C20: sum_visits returns the number of visits given, zero-length ones    *)
(* included, and the sum of max(0, end_ms - start_ms); a visit with end    *)
(* before start adds 0.                                                    *)
C20_SumVisits ==
    sum_out # None =>
        /\ Val(sum_out).visits = Len(s_visits)
        /\ Val(sum_out).total_ms =
              SumOverIndices(
                  [k \in 1..Len(s_visits) |->
                      IF s_visits[k].end_ms > s_visits[k].start_ms
                      THEN s_visits[k].end_ms - s_visits[k].start_ms
                      ELSE 0],
                  1..Len(s_visits))
        /\ Val(sum_out).total_ms >= 0

\* sum_visits is done for a list holding a visit with end before start and
\* a zero-length visit.
C20_Witness ==
    /\ sum_out # None
    /\ Len(s_visits) = 2
    /\ s_visits[1].end_ms < s_visits[1].start_ms
    /\ s_visits[2].end_ms = s_visits[2].start_ms
    /\ Val(sum_out).visits = 2
    /\ Val(sum_out).total_ms = 0

(* C21: find_visits raises no exception for any finite sample sequence and *)
(* any parameter values, an unusable time-zone name included.              *)
C21_NeverRaises == pc # "raised"

(* C22: on re-import start_ms and end_ms come from the start_time and      *)
(* end_time text; the epoch columns never influence the result: two rows   *)
(* that differ only in their epoch columns give equal Visits.              *)
C22_EpochColumnsIgnored ==
    /\ (imp_out # None /\ ~Val(imp_out).raised) =>
          /\ Val(imp_out).value.start_ms
                = imp_in.start_time.wall_ms
                    - (IF imp_in.start_time.offset_ms = None
                       THEN utcoffset_ms(imp_in.tz_name)
                       ELSE Val(imp_in.start_time.offset_ms))
          /\ Val(imp_out).value.end_ms
                = imp_in.end_time.wall_ms
                    - (IF imp_in.end_time.offset_ms = None
                       THEN utcoffset_ms(imp_in.tz_name)
                       ELSE Val(imp_in.end_time.offset_ms))
    /\ (imp_first # None /\ imp_out # None) => imp_out = imp_first

\* A row read twice, the second time with a filled-in start epoch cell that
\* disagrees with its start_time text.
C22_Witness ==
    /\ imp_first # None
    /\ imp_out # None
    /\ ~Val(imp_out).raised
    /\ imp_in.start_epoch_ms # None
    /\ Val(imp_in.start_epoch_ms) # Val(imp_out).value.start_ms

\* A file with rows whose header lacks a required column.
MissingRequiredField ==
    l_csv.rows # << >> /\ l_csv.fieldnames # RequiredFields

(* C23: loading a track CSV in which a required field is missing raises a  *)
(* named error in the ingestion layer; no empty or partial sample list is  *)
(* returned and handed to find_visits.                                     *)
C23_MissingFieldIsError ==
    MissingRequiredField =>
        /\ load_out # None => Val(load_out).raised
        /\ cmd_fed # None => Val(cmd_fed).raised

(* C24: after set(k, v) has returned, if the process stops without calling *)
(* flush(), a new JsonDiskCache on the same path returns v from get(k),    *)
(* whether the snapshot file is absent, empty, valid JSON or corrupted.    *)
C24_CrashSafe ==
    (c_got # None /\ Val(c_got).first_use
        /\ c_unflushed[Val(c_got).key] # None) =>
            Val(c_got).value = c_unflushed[Val(c_got).key]

(* C25: across any sequence of reverse() calls with max_new_requests = N   *)
(* at most N new API requests are issued in total; once N have been used,  *)
(* reverse() returns None for an uncached key without issuing a request.   *)
C25_BudgetHolds ==
    g_max # None =>
        /\ g_requests <= Val(g_max)
        /\ (g_out # None /\ ~Val(g_out).cached
               /\ Val(g_out).requests_before >= Val(g_max)) =>
                  (~Val(g_out).requested /\ Val(g_out).result = None)

(* C26: in one export-readable run with --geocode-max-requests = M >= 0    *)
(* the number of new reverse-geocoding requests never exceeds M, in the    *)
(* sequential and in the concurrent mode alike; with M = 0 none is issued. *)
C26_RunBudget ==
    (e_args.geocode_max_requests # None
        /\ Val(e_args.geocode_max_requests) >= 0) =>
            e_requests <= Val(e_args.geocode_max_requests)

\* A finished concurrent run that had more pending keys than M >= 1 and used
\* all M requests.
C26_Witness ==
    /\ e_pc = "done"
    /\ e_args.geocode_workers > 1
    /\ e_args.geocode_max_requests # None
    /\ Val(e_args.geocode_max_requests) >= 1
    /\ e_args.pending_n > Val(e_args.geocode_max_requests)
    /\ e_requests = Val(e_args.geocode_max_requests)
    /\ e_completed = e_requests

(* C27: the visits returned by one find_visits call are pairwise disjoint  *)
(* and in chronological order: for every two consecutive emitted visits v  *)
(* then w, v.end_ms <= w.start_ms.                                         *)
C27_DisjointInOrder ==
    \A k \in 1..(Len(visits) - 1) : visits[k].end_ms <= visits[k + 1].start_ms

\* A finished run that returned two visits.
C27_Witness ==
    /\ pc = "done"
    /\ Len(visits) >= 2
    /\ visits[1].end_ms < visits[2].start_ms

(* C28: after every processed sample, while a visit is open                *)
(* visit_start_ms <= visit_end_ms = last_inside_ms and visit_points >= 1;  *)
(* outside_started_ms is non-null only while a visit is open, and then     *)
(* outside_started_ms >= last_inside_ms.                                   *)
C28_EngineState ==
    pc = "loop" =>
        /\ in_visit =>
              /\ visit_start_ms <= visit_end_ms
              /\ visit_end_ms = last_inside_ms
              /\ visit_points >= 1
        /\ outside_started_ms # None =>
              /\ in_visit
              /\ Val(outside_started_ms) >= last_inside_ms

\* A visit of two samples, entered at a midpoint, with an exit pending.
C28_Witness ==
    /\ pc = "loop"
    /\ in_visit
    /\ visit_points >= 2
    /\ visit_start_ms < visit_end_ms
    /\ outside_started_ms # None
    /\ Val(outside_started_ms) > last_inside_ms
    /\ method = "midpoint_entry"

RECURSIVE SumPoints(_)
SumPoints(as) ==
    IF as = << >> THEN 0 ELSE Head(as).points + SumPoints(Tail(as))

B(x) == IF x THEN 1 ELSE 0

\* A visit is open and has had no closing attempt yet.
OpenNow == in_visit /\ pc = "loop"

\* A step that opens a visit: from no visit, or as the restart of a split.
OpensVisit ==
    \/ ~in_visit /\ in_visit'
    \/ AtSample /\ CurInside /\ in_visit /\ in_visit' /\ visit_points' = 1

(* C29: every inside sample is counted in exactly one closing candidate:   *)
(* the sample counts of all candidates, emitted or discarded, add up to    *)
(* the number of inside samples, outside samples are never counted, and    *)
(* every opened visit gets exactly one closing attempt.                    *)
C29_SamplesCountedOnce ==
    /\ [](pc = "loop" =>
            SumPoints(attempts) + (IF in_visit THEN visit_points ELSE 0)
                = Cardinality({k \in InsideIndices : k < i}))
    /\ [](pc = "done" =>
            SumPoints(attempts) = Cardinality(InsideIndices))
    /\ [][B(OpenNow') - B(OpenNow)
             = B(OpensVisit) - (Len(attempts') - Len(attempts))]_vars

\* A finished run with an emitted and a discarded candidate and an outside
\* sample.
C29_Witness ==
    /\ pc = "done"
    /\ Len(attempts) >= 2
    /\ Len(visits) = 1
    /\ Cardinality(InsideIndices) >= 3
    /\ Cardinality(InsideIndices) < Len(pts)

\* The times of the inside samples, in the order of pts.
RECURSIVE InsideTimes(_)
InsideTimes(s) ==
    IF s = << >> THEN << >>
    ELSE IF is_inside_circle(Head(s), geofence)
         THEN << Head(s).geo_time_ms >> \o InsideTimes(Tail(s))
         ELSE InsideTimes(Tail(s))

\* The inside samples counted in candidate j: candidates take the inside
\* samples in order, each as many as its sample count.
CountedIn(j) ==
    LET before == SumPoints(SubSeq(attempts, 1, j - 1))
    IN (before + 1)..(before + attempts[j].points)

(* C30: for every closing candidate, each inside sample counted in it has  *)
(* a timestamp t with start <= t <= end, and start and end lie between the *)
(* earliest and the latest sample time of the input.                       *)
C30_CandidateCoversSamples ==
    \A j \in 1..Len(attempts) :
        /\ \A m \in CountedIn(j) :
              /\ m <= Len(InsideTimes(pts))
              /\ attempts[j].start_ms <= InsideTimes(pts)[m]
              /\ InsideTimes(pts)[m] <= attempts[j].end_ms
        /\ pts[1].geo_time_ms <= attempts[j].start_ms
        /\ attempts[j].start_ms <= pts[Len(pts)].geo_time_ms
        /\ pts[1].geo_time_ms <= attempts[j].end_ms
        /\ attempts[j].end_ms <= pts[Len(pts)].geo_time_ms

\* A candidate of two samples entered and left at midpoints: both ends lie
\* strictly outside the span of its samples.
C30_Witness ==
    /\ pc = "done"
    /\ \E j \in 1..Len(attempts) :
          /\ attempts[j].points >= 2
          /\ attempts[j].method = "exit_grace"
          /\ \A m \in CountedIn(j) :
                /\ attempts[j].start_ms < InsideTimes(pts)[m]
                /\ InsideTimes(pts)[m] < attempts[j].end_ms


----------------------------------------------------------------------------
(* C31: the method tag of an emitted visit is determined by the event that *)
(* closed it: exit_grace exactly when a confirmed exit closed it,          *)
(* split_on_inside_gap exactly when a gap split closed it, and otherwise   *)
(* (closed at the end of the stream) the tag of its opening event, one of  *)
(* start_at_first_inside, midpoint_entry, restart_after_gap.               *)

OpeningTags == {"start_at_first_inside", "midpoint_entry", "restart_after_gap"}

\* The tag of the event that opens a visit in this step: the first sample,
\* an entry with no visit open, or the restart after a gap split.
OpeningEventTag ==
    IF pc = "start" THEN "start_at_first_inside"
    ELSE IF ~in_visit THEN "midpoint_entry"
    ELSE "restart_after_gap"

\* The event that closes a visit in this step.
ClosingEvent ==
    IF AtEndOfStream THEN "end_of_stream"
    ELSE IF CurInside THEN "gap_split"
    ELSE "confirmed_exit"

C31_TagByClosingEvent ==
    /\ [][OpensVisit => method' = OpeningEventTag]_vars
    /\ [][(in_visit /\ in_visit' /\ ~OpensVisit) => method' = method]_vars
    /\ [](OpenNow => method \in OpeningTags)
    /\ [][OneAttempt =>
            LET tag == Last(attempts').method
            IN /\ (tag = "exit_grace") <=> (ClosingEvent = "confirmed_exit")
               /\ (tag = "split_on_inside_gap") <=> (ClosingEvent = "gap_split")
               /\ (ClosingEvent = "end_of_stream") =>
                     (tag = method /\ tag \in OpeningTags)
               /\ visits' # visits => Last(visits') = Last(attempts')]_vars
    /\ [](\A k \in 1..Len(visits) :
            \E j \in 1..Len(attempts) : visits[k] = attempts[j])

\* A run that emitted three visits, one closed by each kind of event, the
\* last one carrying the tag of the restart that opened it.
C31_Witness ==
    /\ pc = "done"
    /\ Len(visits) = 3
    /\ Len(attempts) = 3
    /\ visits[1].method = "exit_grace"
    /\ visits[2].method = "split_on_inside_gap"
    /\ visits[3].method = "restart_after_gap"


----------------------------------------------------------------------------
(* C32: a visit is closed with tag exit_grace only on an outside sample    *)
(* cur such that no inside sample lies between outside_started and cur and *)
(* cur.time - outside_started >= exit_grace: the time of separate outside  *)
(* runs interrupted by an inside sample is never added up.                 *)

\* The index of the first sample of the run of consecutive outside samples
\* that ends at the outside sample k.
RunStart(k) ==
    CHOOSE r \in 1..k :
        /\ \A m \in r..k : ~is_inside_circle(pts[m], geofence)
        /\ r > 1 => is_inside_circle(pts[r - 1], geofence)

C32_GraceWithinOneRun ==
    [][(OneAttempt /\ Last(attempts').method = "exit_grace") =>
          /\ AtSample
          /\ ~CurInside
          /\ OutsideStarted(Cur) = pts[RunStart(i)].geo_time_ms
          /\ Cur.geo_time_ms - pts[RunStart(i)].geo_time_ms
                >= params.exit_grace_seconds * MsPerSecond]_vars

\* A visit closed by a confirmed exit in the second outside run, after a
\* first run that an inside sample cut short; the two runs together had
\* reached the grace period one sample earlier.
C32_Witness ==
    /\ pc = "done"
    /\ params.exit_grace_seconds > 0
    /\ Len(attempts) = 1
    /\ attempts[1].method = "exit_grace"
    /\ \E a, b, c \in 1..(Len(pts) - 1) :
          /\ a < b /\ b < c
          /\ c + 1 = Len(pts)
          /\ ~is_inside_circle(pts[a], geofence)
          /\ is_inside_circle(pts[b], geofence)
          /\ ~is_inside_circle(pts[c], geofence)
          /\ ~is_inside_circle(pts[c + 1], geofence)
          /\ pts[c].geo_time_ms - pts[a].geo_time_ms
                >= params.exit_grace_seconds * MsPerSecond
          /\ pts[c].geo_time_ms - pts[RunStart(c)].geo_time_ms
                < params.exit_grace_seconds * MsPerSecond

----------------------------------------------------------------------------
(* C33: whenever no visit is open after a processed sample, that sample    *)
(* was classified outside; so the branch that opens a visit tagged         *)
(* start_at_inside (previous sample inside, no visit open) is never taken  *)
(* and no emitted visit carries that tag.                                  *)
C33_NoVisitMeansOutside ==
    /\ (pc \in {"loop", "done"} /\ pts # << >> /\ ~in_visit) =>
          /\ ~prev_inside
          /\ ~is_inside_circle(prev, geofence)
    /\ ~(AtSample /\ ~in_visit /\ prev_inside /\ CurInside)
    /\ method # "start_at_inside"
    /\ \A k \in 1..Len(attempts) : attempts[k].method # "start_at_inside"
    /\ \A k \in 1..Len(visits) : visits[k].method # "start_at_inside"

\* No visit is open after the sample that closed one, and the next sample is
\* inside: the entry branch will take it.
C33_Witness ==
    /\ AtSample
    /\ ~in_visit
    /\ Len(attempts) >= 1
    /\ ~prev_inside
    /\ CurInside


----------------------------------------------------------------------------
(* C34: export then re-import is a round trip: for every visit list        *)
(* find_visits produced, write_visits_csv followed by iter_visits_from_csv *)
(* with the same time zone yields visits with the same visit_id, start_ms, *)
(* end_ms, points and method, in the same order.                           *)
C34_RoundTrip ==
    x_back # None =>
        /\ ~Val(x_back).raised
        /\ Val(x_back).value = visits


----------------------------------------------------------------------------
RECURSIVE RecordsOver(_, _)
RecordsOver(dict, lines) ==
    IF lines = << >> THEN dict
    ELSE IF Head(lines).kind = "record"
    THEN RecordsOver([dict EXCEPT ![Head(lines).k] = Some(Head(lines).v)],
                     Tail(lines))
    ELSE RecordsOver(dict, Tail(lines))

OnDisk ==
    RecordsOver(IF c_snapshot.kind = "json" THEN c_snapshot.data ELSE EmptyDict,
                IF c_journal = None THEN << >> ELSE Val(c_journal))

\* C36: at every point of flush() (after the .tmp file is written, after it
\* has replaced the snapshot, after the journal is removed) the snapshot and
\* the journal together still hold every entry that was set.
C36_FlushKeepsEntries ==
    \A k \in CacheKeys :
        c_ever_set[k] # None => OnDisk[k] = c_ever_set[k]

\* C37: load() never raises, and a loaded object holds the entries of the
\* snapshot overlaid by the journal's records in file order, so the last
\* record of a key wins and a malformed line hides no record before or after
\* it.
C37_JournalReplay ==
    /\ c_exc = None
    /\ c_loaded => c_data = OnDisk


(* C38: a reverse() call on a key the cache has an entry for returns the    *)
(* cached result, issues no API request, uses no request budget and leaves  *)
(* the rate limiter's _last_request_at as it was.                           *)
C38_CachedCallTouchesNothing ==
    [][(g_calls' # g_calls /\ Val(g_out').cached) =>
           /\ Val(g_out').result = Some(Val(g_out').key)
           /\ ~Val(g_out').requested
           /\ g_requests' = g_requests
           /\ g_budget' = g_budget
           /\ g_last_request_at' = g_last_request_at
           /\ g_cached' = g_cached]_vars

\* A call on a key that an earlier request of the sequence put into the
\* cache, with a budget in use and the rate limiter already set.
C38_Witness ==
    /\ g_out # None
    /\ Val(g_out).cached
    /\ Val(g_out).key = "31.3,121.5"
    /\ g_max # None
    /\ g_budget > 0
    /\ g_budget < Val(g_max)
    /\ g_requests > 0
    /\ g_last_request_at > 0
    /\ g_now > g_last_request_at + MinIntervalSeconds


(* C39: in the concurrent mode two consecutive submissions to the executor  *)
(* are at least geocode_min_interval seconds apart, also when the submit    *)
(* loop was held back for more than one interval by a full pool.            *)
C39_SubmissionsSpaced ==
    [][(e_pc = "concurrent" /\ e_it_idx' = e_it_idx + 1
           /\ e_last_submit_at # None) =>
              e_now - Val(e_last_submit_at) >= e_args.geocode_min_interval]_vars

\* The run is in the concurrent mode (cli.py lines 174 and 220).
ConcurrentRun == target_n(e_args) > 0 /\ e_args.geocode_workers > 1

====
